---------------------------- MODULE Spec2Model ----------------------------
(***************************************************************************)
(* FordPixelWizard: the pixel-art pipeline PixelArtProcessor::Process      *)
(* (src/src/PixelArtProcessor.cpp) as a state machine.  One behaviour is   *)
(* one call of Process: the caller's image and parameter record are chosen *)
(* in Init, every stage of the pipeline is one action, and the dithering   *)
(* loop advances one tile-grid cell per step.                              *)
(*                                                                         *)
(* A colour is a triple <<B, G, R>> of 0..255 (cv::Vec3b, channel order of *)
(* the image).  An image is a record [w, h, type, pix] with pix a function *)
(* on the coordinates <<x, y>>, 0 <= x < w, 0 <= y < h.                    *)
(***************************************************************************)
EXTENDS Integers, Sequences, FiniteSets, TLC

(***************************************************************************)
(* Bounds of the model.                                                    *)
(***************************************************************************)
MaxW == 3
MaxH == 2

(***************************************************************************)
(* Program constants.                                                      *)
(***************************************************************************)
MinBlockSize == 1
MaxBlockSize == 256
MinPaletteSize == 2
MaxPaletteSize == 256
MinOutlineThickness == 1
MaxOutlineThickness == 5
FloatMax == 1000000
LuminanceThreshold == 35
ColorDistanceThreshold == 40

Presets ==
    {"Custom", "NES", "GameBoy", "GameBoyPocket", "Pico8", "CGA", "EGA", "Commodore64"}

(***************************************************************************)
(* Small arithmetic helpers.                                               *)
(***************************************************************************)
Min(a, b) == IF a < b THEN a ELSE b
Max(a, b) == IF a > b THEN a ELSE b
Abs(a) == IF a < 0 THEN -a ELSE a

ClampInt(v, lo, hi) == Max(lo, Min(v, hi))

\* static_cast<int>(n / d) for d > 0: C++ truncates toward zero.
TruncDiv(n, d) == IF n >= 0 THEN n \div d ELSE -((-n) \div d)

\* cvRound(n / d) for d > 0: nearest, ties to the even integer.
RoundHalfEven(n, d) ==
    LET q == n \div d
        r == n % d
    IN  IF 2 * r < d THEN q
        ELSE IF 2 * r > d THEN q + 1
        ELSE IF q % 2 = 0 THEN q ELSE q + 1

\* std::lround(n / d) for d > 0: nearest, ties away from zero.
LRound(n, d) ==
    IF n >= 0 THEN (2 * n + d) \div (2 * d) ELSE -((2 * (-n) + d) \div (2 * d))

RECURSIVE SumOver(_, _)
SumOver(f, S) ==
    IF S = {} THEN 0
    ELSE LET x == CHOOSE x \in S : TRUE IN f[x] + SumOver(f, S \ {x})

(***************************************************************************)
(* Images (cv::Mat).                                                       *)
(***************************************************************************)
Coords(w, h) == (0 .. (w - 1)) \X (0 .. (h - 1))

EmptyMat == [w |-> 0, h |-> 0, type |-> "none", pix |-> << >>]

\* cv::Mat::empty(): no element.
IsEmpty(m) == m.w <= 0 \/ m.h <= 0

\* The red difference is left out of the sum.
ColorDistanceSquaredNoRed(a, b) ==
    LET dg == a[2] - b[2]
        db == a[1] - b[1]
    IN  dg * dg + db * db

ColorDistanceSquared(a, b) ==
    LET dr == a[3] - b[3]
        dg == a[2] - b[2]
        db == a[1] - b[1]
    IN  dr * dr + dg * dg + db * db

(***************************************************************************)
(* Block Reducer: BuildBlockColorImageBGR.                                 *)
(***************************************************************************)
\* The partial tile at the edge is dropped: len / blockSize.
BlockGridFloor(len, blockSize) == len \div blockSize

\* bw = (w + blockSize - 1) / blockSize, bh likewise.
BlockGrid(len, blockSize) == (len + blockSize - 1) \div blockSize

\* Pixel c lies in the source rectangle of tile (bx, by):
\* cv::Rect(x0, y0, x1 - x0, y1 - y0).
InTile(c, bx, by, blockSize, w, h) ==
    LET x0 == bx * blockSize
        y0 == by * blockSize
        x1 == Min(x0 + blockSize, w)
        y1 == Min(y0 + blockSize, h)
    IN  c[1] >= x0 /\ c[1] < x1 /\ c[2] >= y0 /\ c[2] < y1

TileRect(bx, by, blockSize, w, h) ==
    {c \in Coords(w, h) : InTile(c, bx, by, blockSize, w, h)}

\* cv::mean over a block, one channel, then static_cast<uchar>: the
\* fractional part of the mean is dropped.
BlockMean(img, rect, ch) ==
    SumOver([c \in rect |-> img.pix[c][ch]], rect) \div Cardinality(rect)

BuildBlockColorImageBGR(img, blockSize0) ==
    IF img.w <= 0 \/ img.h <= 0 THEN EmptyMat
    ELSE LET blockSize == Max(1, blockSize0)
             bw == BlockGrid(img.w, blockSize)
             bh == BlockGrid(img.h, blockSize)
         IN  [w |-> bw, h |-> bh, type |-> "CV_8UC3",
              pix |-> [t \in Coords(bw, bh) |->
                         LET rect == TileRect(t[1], t[2], blockSize, img.w, img.h)
                         IN  <<BlockMean(img, rect, 1),
                               BlockMean(img, rect, 2),
                               BlockMean(img, rect, 3)>>]]

(***************************************************************************)
(* Block Expander: ExpandBlocksBGR.  The output starts black and every     *)
(* tile paints its (truncated) rectangle; a pixel no tile reaches stays    *)
(* black.                                                                  *)
(***************************************************************************)
\* The output is allocated with the size of the tile grid.
ExpandBlocksGridSized(smallBgr, outW, outH, blockSize0) ==
    IF IsEmpty(smallBgr) \/ smallBgr.type # "CV_8UC3" THEN EmptyMat
    ELSE [w |-> smallBgr.w, h |-> smallBgr.h, type |-> "CV_8UC3",
          pix |-> [c \in Coords(smallBgr.w, smallBgr.h) |-> smallBgr.pix[c]]]

\* Every tile starts one pixel early: x0 = bx * blockSize - 1.
ExpandBlocksShifted(smallBgr, outW, outH, blockSize0) ==
    IF IsEmpty(smallBgr) \/ smallBgr.type # "CV_8UC3" THEN EmptyMat
    ELSE LET blockSize == Max(1, blockSize0)
         IN  [w |-> outW, h |-> outH, type |-> "CV_8UC3",
              pix |-> [c \in Coords(outW, outH) |->
                         smallBgr.pix[<<Min((c[1] + 1) \div blockSize, smallBgr.w - 1),
                                        c[2] \div blockSize>>]]]

\* A tile cut by the right or the bottom border is skipped.
ExpandBlocksFullTilesOnly(smallBgr, outW, outH, blockSize0) ==
    IF IsEmpty(smallBgr) \/ smallBgr.type # "CV_8UC3" THEN EmptyMat
    ELSE LET blockSize == Max(1, blockSize0)
             tile(c) == <<c[1] \div blockSize, c[2] \div blockSize>>
             whole(t) == /\ t \in Coords(smallBgr.w, smallBgr.h)
                         /\ (t[1] + 1) * blockSize <= outW
                         /\ (t[2] + 1) * blockSize <= outH
         IN  [w |-> outW, h |-> outH, type |-> "CV_8UC3",
              pix |-> [c \in Coords(outW, outH) |->
                         IF whole(tile(c)) THEN smallBgr.pix[tile(c)] ELSE <<0, 0, 0>>]]

ExpandBlocksBGR(smallBgr, outW, outH, blockSize0) ==
    IF IsEmpty(smallBgr) \/ smallBgr.type # "CV_8UC3" THEN EmptyMat
    ELSE LET blockSize == Max(1, blockSize0)
             Painters(c) ==
                 {t \in Coords(smallBgr.w, smallBgr.h) :
                     InTile(c, t[1], t[2], blockSize, outW, outH)}
         IN  [w |-> outW, h |-> outH, type |-> "CV_8UC3",
              pix |-> [c \in Coords(outW, outH) |->
                         IF Painters(c) = {} THEN <<0, 0, 0>>
                         ELSE smallBgr.pix[CHOOSE t \in Painters(c) : TRUE]]]

(***************************************************************************)
(* Fixed palettes: GetPaletteColors, entries as written in the source.     *)
(***************************************************************************)
PaletteNES ==
    <<
       <<124,124,124>>, <<0,0,252>>, <<0,0,188>>, <<68,40,188>>, <<148,0,132>>, <<168,0,32>>,
       <<168,16,0>>, <<136,20,0>>, <<80,48,0>>, <<0,120,0>>, <<0,104,0>>, <<0,88,0>>,
       <<0,64,88>>, <<0,0,0>>, <<0,0,0>>, <<188,188,188>>, <<0,120,248>>, <<0,88,248>>,
       <<104,68,252>>, <<216,0,204>>, <<228,0,88>>, <<248,56,0>>, <<228,92,16>>, <<172,124,0>>,
       <<0,184,0>>, <<0,168,0>>, <<0,168,68>>, <<0,136,136>>, <<248,248,248>>, <<60,188,252>>,
       <<104,136,252>>, <<152,120,248>>, <<248,120,248>>, <<248,88,152>>, <<248,120,88>>, <<252,160,68>>,
       <<248,184,0>>, <<184,248,24>>, <<88,216,84>>, <<88,248,152>>, <<0,232,216>>, <<120,120,120>>,
       <<252,252,252>>, <<164,228,252>>, <<184,184,248>>, <<216,184,248>>, <<248,184,248>>, <<248,164,192>>,
       <<240,208,176>>, <<252,224,168>>, <<248,216,120>>, <<216,248,120>>, <<184,248,184>>, <<184,248,216>>,
       <<0,252,252>>, <<248,216,248>>
    >>

PaletteGameBoy ==
    <<
       <<15,56,15>>, <<48,98,48>>, <<139,172,15>>, <<155,188,15>>
    >>

PaletteGameBoyPocket ==
    <<
       <<15,15,15>>, <<79,79,79>>, <<163,163,163>>, <<255,255,255>>
    >>

PalettePico8 ==
    <<
       <<0,0,0>>, <<29,43,83>>, <<126,37,83>>, <<0,135,81>>, <<171,82,54>>, <<95,87,79>>,
       <<194,195,199>>, <<255,241,232>>, <<255,0,77>>, <<255,163,0>>, <<255,236,39>>, <<0,228,54>>,
       <<41,173,255>>, <<131,118,156>>, <<255,119,168>>, <<255,204,170>>
    >>

PaletteCGA ==
    <<
       <<0,0,0>>, <<85,255,255>>, <<255,85,255>>, <<255,255,255>>
    >>

PaletteEGA ==
    <<
       <<0,0,0>>, <<0,0,170>>, <<0,170,0>>, <<0,170,170>>, <<170,0,0>>, <<170,0,170>>,
       <<170,85,0>>, <<170,170,170>>, <<85,85,85>>, <<85,85,255>>, <<85,255,85>>, <<85,255,255>>,
       <<255,85,85>>, <<255,85,255>>, <<255,255,85>>, <<255,255,255>>
    >>

PaletteCommodore64 ==
    <<
       <<0,0,0>>, <<255,255,255>>, <<136,0,0>>, <<170,255,238>>, <<204,68,204>>, <<0,204,85>>,
       <<0,0,170>>, <<238,238,119>>, <<221,136,85>>, <<102,68,0>>, <<255,119,119>>, <<51,51,51>>,
       <<119,119,119>>, <<170,255,102>>, <<0,136,255>>, <<187,187,187>>
    >>

GetPaletteColors(preset) ==
    CASE preset = "NES" -> PaletteNES
      [] preset = "GameBoy" -> PaletteGameBoy
      [] preset = "GameBoyPocket" -> PaletteGameBoyPocket
      [] preset = "Pico8" -> PalettePico8
      [] preset = "CGA" -> PaletteCGA
      [] preset = "EGA" -> PaletteEGA
      [] preset = "Commodore64" -> PaletteCommodore64
      [] OTHER -> << >>

PaletteSet(palette) == {palette[i] : i \in 1 .. Len(palette)}

(***************************************************************************)
(* Nearest palette colour: the linear scan of FindNearestPaletteColor and  *)
(* of QuantizeWithFixedPalette; a later entry replaces the best one only   *)
(* when it is strictly nearer.                                             *)
(***************************************************************************)
\* The scan with <= in place of <: among equally near entries the last wins.
RECURSIVE NearestScanLast(_, _, _, _, _)
NearestScanLast(color, palette, i, minDist, bestIdx) ==
    IF i > Len(palette) THEN bestIdx
    ELSE LET dist == ColorDistanceSquared(color, palette[i])
         IN  IF dist <= minDist
             THEN NearestScanLast(color, palette, i + 1, dist, i)
             ELSE NearestScanLast(color, palette, i + 1, minDist, bestIdx)

RECURSIVE NearestScan(_, _, _, _, _)
NearestScan(color, palette, i, minDist, bestIdx) ==
    IF i > Len(palette) THEN bestIdx
    ELSE LET dist == ColorDistanceSquared(color, palette[i])
         IN  IF dist < minDist
             THEN NearestScan(color, palette, i + 1, dist, i)
             ELSE NearestScan(color, palette, i + 1, minDist, bestIdx)

FindNearestPaletteColor(color, palette) ==
    IF Len(palette) = 0 THEN color
    ELSE palette[NearestScan(color, palette, 1, FloatMax, 1)]

\* dstRow[x] = pixel: the source colour is written back.
QuantizeWithFixedPaletteKeepsSource(smallBgr, preset) ==
    IF IsEmpty(smallBgr) \/ smallBgr.type # "CV_8UC3" THEN EmptyMat
    ELSE IF Len(GetPaletteColors(preset)) = 0 THEN EmptyMat
    ELSE smallBgr

QuantizeWithFixedPalette(smallBgr, preset) ==
    IF IsEmpty(smallBgr) \/ smallBgr.type # "CV_8UC3" THEN EmptyMat
    ELSE LET palette == GetPaletteColors(preset)
         IN  IF Len(palette) = 0 THEN EmptyMat
             ELSE [w |-> smallBgr.w, h |-> smallBgr.h, type |-> "CV_8UC3",
                   pix |-> [c \in Coords(smallBgr.w, smallBgr.h) |->
                              palette[NearestScan(smallBgr.pix[c], palette, 1, FloatMax, 1)]]]

(***************************************************************************)
(* Floyd-Steinberg error diffusion, one cell of the raster scan (the body  *)
(* of the loops of QuantizeWithFixedPaletteDither and                      *)
(* QuantizeWithKMeansLabDither, which are the same text).                  *)
(***************************************************************************)
\* The 3/16 share goes to the left neighbour in the current row.
DiffusionTargetsLeft(x, y, w, h) ==
      (IF x + 1 < w THEN {<<1, 0, 7>>} ELSE {})
    \cup (IF x - 1 >= 0 THEN {<<-1, 0, 3>>} ELSE {})
    \cup (IF y + 1 < h THEN {<<0, 1, 5>>} ELSE {})
    \cup (IF y + 1 < h /\ x + 1 < w THEN {<<1, 1, 1>>} ELSE {})

\* <<dx, dy, weight in sixteenths>> of the recipients of cell (x, y).
DiffusionTargets(x, y, w, h) ==
      (IF x + 1 < w THEN {<<1, 0, 7>>} ELSE {})
    \cup (IF y + 1 < h /\ x - 1 >= 0 THEN {<<-1, 1, 3>>} ELSE {})
    \cup (IF y + 1 < h THEN {<<0, 1, 5>>} ELSE {})
    \cup (IF y + 1 < h /\ x + 1 < w THEN {<<1, 1, 1>>} ELSE {})

\* The recipient is not clamped to [0, 255].
DiffuseUnclamped(v, e, sixteenths) == TruncDiv(16 * v + e * sixteenths, 16)

\* static_cast<uchar>(ClampInt(static_cast<int>(v + e * weight), 0, 255));
\* the weights are dyadic, so the float sum is exact before truncation.
Diffuse(v, e, sixteenths) == ClampInt(TruncDiv(16 * v + e * sixteenths, 16), 0, 255)

\* The visited cell keeps its colour: oldPixel = newPixel is left out.
DitherCellKeepsOld(grid, x, y, palette) ==
    LET old == grid.pix[<<x, y>>]
        new == FindNearestPaletteColor(old, palette)
        error == <<old[1] - new[1], old[2] - new[2], old[3] - new[3]>>
        targets == DiffusionTargets(x, y, grid.w, grid.h)
        Weight(c) == (CHOOSE t \in targets : <<x + t[1], y + t[2]>> = c)[3]
        Hit(c) == \E t \in targets : <<x + t[1], y + t[2]>> = c
    IN  [grid EXCEPT !.pix =
            [c \in Coords(grid.w, grid.h) |->
                IF Hit(c)
                THEN <<Diffuse(grid.pix[c][1], error[1], Weight(c)),
                       Diffuse(grid.pix[c][2], error[2], Weight(c)),
                       Diffuse(grid.pix[c][3], error[3], Weight(c))>>
                ELSE grid.pix[c]]]

DitherCell(grid, x, y, palette) ==
    LET old == <<ClampInt(grid.pix[<<x, y>>][1], 0, 255),
                 ClampInt(grid.pix[<<x, y>>][2], 0, 255),
                 ClampInt(grid.pix[<<x, y>>][3], 0, 255)>>
        new == FindNearestPaletteColor(old, palette)
        error == <<old[1] - new[1], old[2] - new[2], old[3] - new[3]>>
        targets == DiffusionTargets(x, y, grid.w, grid.h)
        Weight(c) == (CHOOSE t \in targets : <<x + t[1], y + t[2]>> = c)[3]
        Hit(c) == \E t \in targets : <<x + t[1], y + t[2]>> = c
    IN  [grid EXCEPT !.pix =
            [c \in Coords(grid.w, grid.h) |->
                IF c = <<x, y>> THEN new
                ELSE IF Hit(c)
                     THEN <<Diffuse(grid.pix[c][1], error[1], Weight(c)),
                            Diffuse(grid.pix[c][2], error[2], Weight(c)),
                            Diffuse(grid.pix[c][3], error[3], Weight(c))>>
                     ELSE grid.pix[c]]]

\* The whole raster scan from cell index pos on (index = y * cols + x).
RECURSIVE DitherFrom(_, _, _)
DitherFrom(grid, pos, palette) ==
    IF pos >= grid.w * grid.h THEN grid
    ELSE DitherFrom(DitherCell(grid, pos % grid.w, pos \div grid.w, palette),
                    pos + 1, palette)

(***************************************************************************)
(* Clustering branch.  cv::kmeans and cv::cvtColor are OpenCV's; the model *)
(* keeps what the pipeline relies on.  For a grid of two or more cells the *)
(* result of k-means is a partition of the samples into clusters with the  *)
(* mean of its members as the centre of each; which partition depends on   *)
(* the random initialisation, so it is chosen nondeterministically among   *)
(* the partitions of the distinct sample colours (clusters numbered in     *)
(* order of first appearance).  A cluster the partition leaves without a   *)
(* colour of its own is refilled by OpenCV with a sample of another        *)
(* cluster, so its centre repeats a colour already present.  The 8-bit     *)
(* BGR -> Lab -> BGR round trip is lossy: labErr is the error it leaves on *)
(* every channel of a centre.                                              *)
(***************************************************************************)
\* paletteSize = std::max(2, std::min(paletteSize, total))
EffectiveClusters(paletteSize, total) == Max(2, Min(paletteSize, total))

LabRoundTripError == {0, 1}

\* What an out-of-bounds read of the centres matrix can deliver.
GarbageColors == {<<0, 0, 0>>, <<13, 240, 77>>}

RECURSIVE DistinctFrom(_, _, _)
DistinctFrom(grid, pos, acc) ==
    IF pos >= grid.w * grid.h THEN acc
    ELSE LET c == grid.pix[<<pos % grid.w, pos \div grid.w>>]
         IN  IF \E i \in 1 .. Len(acc) : acc[i] = c
             THEN DistinctFrom(grid, pos + 1, acc)
             ELSE DistinctFrom(grid, pos + 1, Append(acc, c))

\* Labellings of d colours in order of first appearance, as sequences of
\* cluster numbers below k: a colour joins an earlier cluster or opens the
\* next one.
SeqMax(f) == CHOOSE m \in {f[i] : i \in 1 .. Len(f)} : \A i \in 1 .. Len(f) : f[i] <= m

RECURSIVE Growths(_, _)
Growths(d, k) ==
    IF d = 1 THEN {<<0>>}
    ELSE UNION {{Append(f, l) : l \in 0 .. Min(SeqMax(f) + 1, k - 1)} :
                   f \in Growths(d - 1, k)}

\* The labellings of the d distinct colours onto exactly k clusters.
Labellings(d, k) == {f \in Growths(d, k) : SeqMax(f) = k - 1}

\* One outcome of k-means on the grid: labels per cell and K centres, the
\* centres already taken back to BGR.
KMeansOutcome(grid, K, f, labErr) ==
    LET colors == DistinctFrom(grid, 0, << >>)
        d == Len(colors)
        used == Min(K, d)
        IndexOf(c) == CHOOSE i \in 1 .. d : colors[i] = c
        labels == [c \in Coords(grid.w, grid.h) |-> f[IndexOf(grid.pix[c])]]
        Members(k) == {c \in Coords(grid.w, grid.h) : labels[c] = k}
        Mean(k, ch) ==
            ClampInt(LRound(SumOver([c \in Members(k) |-> grid.pix[c][ch]], Members(k)),
                            Cardinality(Members(k))) + labErr, 0, 255)
    IN  [labels |-> labels,
         centers |-> [i \in 1 .. K |->
                        LET k == (i - 1) % used
                        IN  <<Mean(k, 1), Mean(k, 2), Mean(k, 3)>>]]

KMeansOutcomes(grid, K) ==
    LET d == Len(DistinctFrom(grid, 0, << >>))
    IN  {KMeansOutcome(grid, K, f, e) : f \in Labellings(d, Min(K, d)), e \in LabRoundTripError}

\* Every cell keeps its own colour instead of its cluster's centre.
QuantizedByLabelsKeepsSource(grid, outcome) ==
    [w |-> grid.w, h |-> grid.h, type |-> "CV_8UC3", pix |-> grid.pix]

\* QuantizeWithKMeansLab after k-means: every cell takes its cluster's centre.
QuantizedByLabels(grid, outcome) ==
    [w |-> grid.w, h |-> grid.h, type |-> "CV_8UC3",
     pix |-> [c \in Coords(grid.w, grid.h) |-> outcome.centers[outcome.labels[c] + 1]]]

(***************************************************************************)
(* cv::GaussianBlur with BORDER_DEFAULT (reflect-101), as the pre-smoother *)
(* and the edge enhancer use it.  A 3 x 3 kernel is the binomial           *)
(* [1 2 1] / 4 in both directions, summed in fixed point and rounded half  *)
(* up.  A wider kernel (blockSize >= 8) on the small images of the model   *)
(* spans many reflections of the image; it is modelled by its limit, the   *)
(* mean over one period of the reflected image.                            *)
(***************************************************************************)
\* cv::borderInterpolate(p, len, BORDER_REFLECT_101) for p in -1 .. len.
Reflect101(p, len) ==
    IF len = 1 THEN 0
    ELSE IF p < 0 THEN -p
    ELSE IF p >= len THEN 2 * len - 2 - p
    ELSE p

Binomial(d) == IF d = 0 THEN 2 ELSE 1

Blur3Channel(img, c, ch) ==
    LET N == {-1, 0, 1} \X {-1, 0, 1}
        term == [n \in N |->
                   Binomial(n[1]) * Binomial(n[2])
                   * img.pix[<<Reflect101(c[1] + n[1], img.w),
                               Reflect101(c[2] + n[2], img.h)>>][ch]]
    IN  (SumOver(term, N) + 8) \div 16

\* Weight of index i in one period of the reflection of 0 .. len - 1.
PeriodWeight(i, len) == IF len = 1 \/ (i > 0 /\ i < len - 1) THEN 2 ELSE 1

WideBlurChannel(img, ch) ==
    LET S == Coords(img.w, img.h)
        term == [c \in S |->
                   PeriodWeight(c[1], img.w) * PeriodWeight(c[2], img.h) * img.pix[c][ch]]
        total == [c \in S |-> PeriodWeight(c[1], img.w) * PeriodWeight(c[2], img.h)]
    IN  (2 * SumOver(term, S) + SumOver(total, S)) \div (2 * SumOver(total, S))

GaussianBlur(img, k) ==
    [img EXCEPT !.pix =
        [c \in Coords(img.w, img.h) |->
            IF k = 3
            THEN <<Blur3Channel(img, c, 1), Blur3Channel(img, c, 2), Blur3Channel(img, c, 3)>>
            ELSE <<WideBlurChannel(img, 1), WideBlurChannel(img, 2), WideBlurChannel(img, 3)>>]]

\* int k = std::max(3, (p.blockSize / 2) | 1);
PreBlurKernel(blockSize) ==
    LET half == blockSize \div 2
    IN  Max(3, IF half % 2 = 0 THEN half + 1 ELSE half)

(***************************************************************************)
(* Edge Enhancer: ApplyEdgeEnhancementInPlace, strength in tenths.         *)
(* sharpened = bgr + (bgr - blurred) * strength, clamped to [0, 255] and   *)
(* converted to 8 bits by cvRound.                                         *)
(***************************************************************************)
EdgeStrengthTenths == 7

ApplyEdgeEnhancementInPlace(bgr, strengthTenths0) ==
    IF IsEmpty(bgr) \/ bgr.type # "CV_8UC3" THEN bgr
    ELSE LET strength == Max(0, Min(strengthTenths0, 20))
             blurred == GaussianBlur(bgr, 3)
             Sharp(c, ch) ==
                 RoundHalfEven(
                     ClampInt(10 * bgr.pix[c][ch]
                              + strength * (bgr.pix[c][ch] - blurred.pix[c][ch]), 0, 2550),
                     10)
         IN  [bgr EXCEPT !.pix =
                 [c \in Coords(bgr.w, bgr.h) |-> <<Sharp(c, 1), Sharp(c, 2), Sharp(c, 3)>>]]

(***************************************************************************)
(* Outline Extractor: ApplyPixelArtOutline.                                *)
(***************************************************************************)
\* static_cast<int>(0.299f * R + 0.587f * G + 0.114f * B)
Luminance(c) == (299 * c[3] + 587 * c[2] + 114 * c[1]) \div 1000

\* Both thresholds taken as 0: every neighbour counts as different.
DiffersFromZero(a, b) ==
    \/ Abs(Luminance(a) - Luminance(b)) >= 0
    \/ ColorDistanceSquared(a, b) >= 0

\* lumDiff >= luminanceThreshold || colorDist >= colorDistanceThreshold
Differs(a, b) ==
    \/ Abs(Luminance(a) - Luminance(b)) >= LuminanceThreshold
    \/ ColorDistanceSquared(a, b) >= ColorDistanceThreshold * ColorDistanceThreshold

\* Only the right and the bottom neighbour are looked at.
IsEdgeRightBottomOnly(bgr, c) ==
    LET x == c[1]
        y == c[2]
    IN  \/ x + 1 < bgr.w /\ Differs(bgr.pix[c], bgr.pix[<<x + 1, y>>])
        \/ y + 1 < bgr.h /\ Differs(bgr.pix[c], bgr.pix[<<x, y + 1>>])

\* The mask of the first loop: right, bottom, left, top neighbour in turn,
\* each looked at only while no earlier one marked the pixel.
IsEdge(bgr, c) ==
    LET x == c[1]
        y == c[2]
        right == x + 1 < bgr.w /\ Differs(bgr.pix[c], bgr.pix[<<x + 1, y>>])
        bottom == IF ~right /\ y + 1 < bgr.h
                  THEN Differs(bgr.pix[c], bgr.pix[<<x, y + 1>>]) ELSE right
        left == IF ~bottom /\ x > 0
                THEN Differs(bgr.pix[c], bgr.pix[<<x - 1, y>>]) ELSE bottom
        top == IF ~left /\ y > 0
               THEN Differs(bgr.pix[c], bgr.pix[<<x, y - 1>>]) ELSE left
    IN  top

EdgeMask(bgr) == [c \in Coords(bgr.w, bgr.h) |-> IsEdge(bgr, c)]

\* Structuring elements, as offsets from the anchor.
CrossKernel == {<<0, 0>>, <<1, 0>>, <<-1, 0>>, <<0, 1>>, <<0, -1>>}
RectKernel(thickness) == ((-thickness) .. thickness) \X ((-thickness) .. thickness)

\* cv::erode / cv::dilate with the default border: positions outside the
\* image never decide the result.
Inside(c, w, h) == c[1] >= 0 /\ c[1] < w /\ c[2] >= 0 /\ c[2] < h
Erode(mask, w, h, kernel) ==
    [c \in Coords(w, h) |->
        \A k \in kernel :
            LET n == <<c[1] + k[1], c[2] + k[2]>> IN Inside(n, w, h) => mask[n]]
Dilate(mask, w, h, kernel) ==
    [c \in Coords(w, h) |->
        \E k \in kernel :
            LET n == <<c[1] + k[1], c[2] + k[2]>> IN Inside(n, w, h) /\ mask[n]]

\* thickness == 1: MORPH_OPEN with the cross; otherwise dilation with the
\* (2 * thickness + 1) square.
ShapedMask(bgr, thickness) ==
    IF thickness = 1
    THEN Dilate(Erode(EdgeMask(bgr), bgr.w, bgr.h, CrossKernel), bgr.w, bgr.h, CrossKernel)
    ELSE Dilate(EdgeMask(bgr), bgr.w, bgr.h, RectKernel(thickness))

\* The same amount for every brightness.
DarkenAmountFlat(pixel) == 70

DarkenAmount(pixel) ==
    LET brightness == (pixel[1] + pixel[2] + pixel[3]) \div 3
    IN  IF brightness < 64 THEN 40 ELSE IF brightness > 192 THEN 90 ELSE 70

Darken(pixel) ==
    <<Max(0, pixel[1] - DarkenAmount(pixel)),
      Max(0, pixel[2] - DarkenAmount(pixel)),
      Max(0, pixel[3] - DarkenAmount(pixel))>>

ApplyPixelArtOutline(bgr, thickness0) ==
    IF IsEmpty(bgr) \/ bgr.type # "CV_8UC3" THEN bgr
    ELSE LET thickness == Max(1, Min(thickness0, 5))
             edges == ShapedMask(bgr, thickness)
         IN  [bgr EXCEPT !.pix =
                 [c \in Coords(bgr.w, bgr.h) |->
                     IF edges[c] THEN Darken(bgr.pix[c]) ELSE bgr.pix[c]]]

(***************************************************************************)
(* The inputs of one call.                                                 *)
(***************************************************************************)
PixelColors == {<<20, 30, 40>>, <<200, 120, 41>>}

\* Two-colour layouts of a w x h image: the pixels where the layout holds
\* take the second colour.
Layouts == {"flat", "columns", "rows", "checker", "corner"}
InLayout(layout, x, y, w, h) ==
    CASE layout = "flat" -> FALSE
      [] layout = "columns" -> x >= 1
      [] layout = "rows" -> y >= 1
      [] layout = "checker" -> (x + y) % 2 = 1
      [] layout = "corner" -> x = w - 1 /\ y = h - 1

Image(w, h, layout, c1, c2) ==
    [w |-> w, h |-> h, type |-> "CV_8UC3",
     pix |-> [c \in Coords(w, h) |->
                IF InLayout(layout, c[1], c[2], w, h) THEN c2 ELSE c1]]

ValidImages ==
    {Image(w, h, l, c1, c2) :
        w \in 1 .. MaxW, h \in 1 .. MaxH, l \in Layouts, c1 \in PixelColors, c2 \in PixelColors}

\* Inputs Process rejects: no element, or another sample type.
InvalidImages ==
    {[w |-> 0, h |-> 0, type |-> "CV_8UC3", pix |-> << >>],
     [w |-> 0, h |-> MaxH, type |-> "CV_8UC3", pix |-> << >>],
     [w |-> MaxW, h |-> 0, type |-> "CV_8UC3", pix |-> << >>]}
    \cup {[Image(2, 1, "flat", c, c) EXCEPT !.type = t] :
            c \in PixelColors, t \in {"CV_8UC1", "CV_8UC4"}}

InputImages == ValidImages \cup InvalidImages

BlockSizes == {0, 2, 300}
PaletteSizes == {0, 3, 300}
OutlineThicknesses == {0, 9}
ModelPresets == {"Custom", "CGA", "GameBoy"}

\* Parameter records; a field the call never reads keeps its default.
ParamRecords ==
    {r \in [blockSize : BlockSizes, paletteSize : PaletteSizes \cup {16},
            preBlur : BOOLEAN, edgeEnhance : BOOLEAN, dither : BOOLEAN,
            outline : BOOLEAN, outlineThickness : OutlineThicknesses \cup {1},
            palettePreset : ModelPresets] :
        /\ (r.palettePreset = "Custom") = (r.paletteSize \in PaletteSizes)
        /\ r.outline = (r.outlineThickness \in OutlineThicknesses)}

(***************************************************************************)
(* State of one call of PixelArtProcessor::Process.                        *)
(***************************************************************************)
VARIABLES
    inputBgr,           \* the caller's image
    params,             \* the caller's parameter record
    p,                  \* Process's local copy of the parameters
    work,               \* clone of the input, pre-blurred in place
    smallBlocksBgr,     \* tile grid of the Block Reducer
    quantizedSmallBgr,  \* tile grid after palette limitation
    palette,            \* palette of the dithering loop in progress
    dwork,              \* grid the dithering loop rewrites in place
    dpos,               \* raster index of the next cell of the dithering loop
    kmeansCall,         \* cluster count and sample count handed to cv::kmeans
    out,                \* expanded image
    ret,                \* the image Process returned
    status,             \* "running", "returned" or "threw"
    stages,             \* the stages that have run, in order
    pc,                 \* position inside Process
    loadPath_,          \* App: text of the load path field
    savePath_,          \* App: path of the save dialog, "" until one is confirmed
    status_,            \* App: status line
    params_,            \* App: parameter record of the widgets
    inputBgr_,          \* App: loaded image
    outputBgr_,         \* App: result image
    inputTex_,          \* App: GLTexture of the loaded image
    outputTex_,         \* App: GLTexture of the result
    glTextures,         \* OpenGL: texture names in use and the RGBA image of each
    disk,               \* by path, the image last written there by cv::imwrite
    loadCall,           \* the last call of ImageLoader::LoadBGR and what it left
    texCall,            \* the last call on a GLTexture and what it returned
    outputSource,       \* the image handed to the Process call that gave outputBgr_
    lastHandler,        \* the handler that ran last and what its file dialog returned
    appPc               \* "idle", "pixelize" (inside Process) or "terminated"

processVars == <<inputBgr, params, p, work, smallBlocksBgr, quantizedSmallBgr, palette,
                 dwork, dpos, kmeansCall, out, ret, status, stages, pc>>

appVars == <<loadPath_, savePath_, status_, params_, inputBgr_, outputBgr_,
             inputTex_, outputTex_, glTextures, disk, loadCall, texCall,
             outputSource, lastHandler, appPc>>

vars == <<processVars, appVars>>

\* GLTexture after construction: textureId_ = 0, width_ = 0, height_ = 0.
NoTexture == [textureId_ |-> 0, width_ |-> 0, height_ |-> 0]

NoLoadCall == [called |-> FALSE, ok |-> FALSE, outBgr |-> EmptyMat, outError |-> ""]

\* name: the button or widget; dialog: "none" when no file dialog was opened,
\* else "confirmed" or "cancelled".
NoHandler == [name |-> "none", dialog |-> "none"]

NoTexCall == [op |-> "none", mat |-> EmptyMat, ret |-> FALSE]

\* The record App::App() leaves in params_: the defaults of Params with
\* blockSize 8, paletteSize 16, preBlur on, edgeEnhance off.
DefaultParams ==
    [blockSize |-> 8, paletteSize |-> 16, preBlur |-> TRUE, edgeEnhance |-> FALSE,
     dither |-> FALSE, outline |-> FALSE, outlineThickness |-> 1,
     palettePreset |-> "Custom"]

\* The App as constructed: no path, no image, no texture, nothing written.
AppConstructed ==
    /\ loadPath_ = ""
    /\ savePath_ = ""
    /\ status_ = <<"", "">>
    /\ params_ = DefaultParams
    /\ inputBgr_ = EmptyMat
    /\ outputBgr_ = EmptyMat
    /\ inputTex_ = NoTexture
    /\ outputTex_ = NoTexture
    /\ glTextures = << >>
    /\ disk = << >>
    /\ loadCall = NoLoadCall
    /\ texCall = NoTexCall
    /\ outputSource = EmptyMat
    /\ lastHandler = NoHandler
    /\ appPc = "idle"

NoCall == [K |-> 0, total |-> 0]

Init ==
    /\ AppConstructed
    /\ inputBgr \in InputImages
    /\ params \in ParamRecords
    /\ p = params
    /\ work = EmptyMat
    /\ smallBlocksBgr = EmptyMat
    /\ quantizedSmallBgr = EmptyMat
    /\ palette = << >>
    /\ dwork = EmptyMat
    /\ dpos = 0
    /\ kmeansCall = NoCall
    /\ out = EmptyMat
    /\ ret = EmptyMat
    /\ status = "running"
    /\ stages = << >>
    /\ pc = "call"

\* return {};
ReturnEmpty ==
    /\ ret' = EmptyMat
    /\ status' = "returned"
    /\ pc' = "done"

\* An exception leaves Process: nothing is returned.
Throw ==
    /\ ret' = EmptyMat
    /\ status' = "threw"
    /\ pc' = "done"

\* The sample type is not looked at.
InputAcceptedAnyType(img) == ~IsEmpty(img)

\* if (inputBgr.empty()) return {}; if (inputBgr.type() != CV_8UC3) return {};
InputAccepted(img) == ~IsEmpty(img) /\ img.type = "CV_8UC3"

\* Only blockSize is clamped.
ClampParamsBlockOnly(r) ==
    [r EXCEPT !.blockSize = ClampInt(r.blockSize, MinBlockSize, MaxBlockSize)]

ClampParams(r) ==
    [r EXCEPT !.blockSize = ClampInt(r.blockSize, MinBlockSize, MaxBlockSize),
              !.paletteSize = ClampInt(r.paletteSize, MinPaletteSize, MaxPaletteSize)]

\* Entry of Process: the two guards, the clamped local copy, the clone.
Enter ==
    /\ UNCHANGED appVars
    /\ pc = "call"
    /\ IF InputAccepted(inputBgr)
       THEN /\ p' = ClampParams(params)
            /\ work' = inputBgr
            /\ pc' = "preblur"
            /\ UNCHANGED <<ret, status>>
       ELSE /\ ReturnEmpty
            /\ UNCHANGED <<p, work>>
    /\ UNCHANGED <<inputBgr, params, smallBlocksBgr, quantizedSmallBgr, palette,
                   dwork, dpos, kmeansCall, out, stages>>

\* Step 1: optional pre-blur.
PreBlur ==
    /\ UNCHANGED appVars
    /\ pc = "preblur"
    /\ IF p.preBlur
       THEN /\ work' = GaussianBlur(work, PreBlurKernel(p.blockSize))
            /\ stages' = Append(stages, "preblur")
       ELSE UNCHANGED <<work, stages>>
    /\ pc' = "reduce"
    /\ UNCHANGED <<inputBgr, params, p, smallBlocksBgr, quantizedSmallBgr, palette,
                   dwork, dpos, kmeansCall, out, ret, status>>

\* Step 2: block reduction.
BlockReduce ==
    /\ UNCHANGED appVars
    /\ pc = "reduce"
    /\ smallBlocksBgr' = BuildBlockColorImageBGR(work, p.blockSize)
    /\ stages' = Append(stages, "reduce")
    /\ IF IsEmpty(smallBlocksBgr')
       THEN ReturnEmpty
       ELSE pc' = "quantize" /\ UNCHANGED <<ret, status>>
    /\ UNCHANGED <<inputBgr, params, p, work, quantizedSmallBgr, palette,
                   dwork, dpos, kmeansCall, out>>

(***************************************************************************)
(* Step 3: palette limitation, one of four quantizers.                     *)
(*                                                                         *)
(* With a 1 x 1 tile grid the clustering quantizers build a 1 x 3 sample   *)
(* matrix and ask for max(2, min(paletteSize, 1)) = 2 clusters.  cv::kmeans *)
(* takes a one-row matrix for three one-dimensional samples and returns a  *)
(* centres matrix with one column; the code then reads columns 1 and 2 of  *)
(* it, outside the matrix.  That read is undefined: a build with OpenCV's  *)
(* debug assertions throws, any other build delivers whatever lies there.  *)
(***************************************************************************)
OutOfBoundsReads ==
    {[kind |-> "threw", color |-> <<0, 0, 0>>]}
    \cup {[kind |-> "read", color |-> g] : g \in GarbageColors}

QuantizeWithKMeansLab ==
    /\ UNCHANGED appVars
    /\ pc = "quantize"
    /\ ~p.dither
    /\ p.palettePreset = "Custom"
    /\ LET total == smallBlocksBgr.w * smallBlocksBgr.h
           K == EffectiveClusters(p.paletteSize, total)
       IN  /\ kmeansCall' = [K |-> K, total |-> total]
           /\ stages' = Append(stages, "kmeans")
           /\ IF total = 1
              THEN \E o \in OutOfBoundsReads :
                      IF o.kind = "threw"
                      THEN Throw /\ UNCHANGED quantizedSmallBgr
                      ELSE /\ quantizedSmallBgr' =
                                [smallBlocksBgr EXCEPT !.pix = [c \in Coords(1, 1) |-> o.color]]
                           /\ pc' = "expand"
                           /\ UNCHANGED <<ret, status>>
              ELSE \E o \in KMeansOutcomes(smallBlocksBgr, K) :
                      /\ quantizedSmallBgr' = QuantizedByLabels(smallBlocksBgr, o)
                      /\ pc' = "expand"
                      /\ UNCHANGED <<ret, status>>
    /\ UNCHANGED <<inputBgr, params, p, work, smallBlocksBgr, palette, dwork, dpos, out>>

QuantizeFixed ==
    /\ UNCHANGED appVars
    /\ pc = "quantize"
    /\ ~p.dither
    /\ p.palettePreset # "Custom"
    /\ quantizedSmallBgr' = QuantizeWithFixedPalette(smallBlocksBgr, p.palettePreset)
    /\ stages' = Append(stages, "fixed")
    /\ IF IsEmpty(quantizedSmallBgr')
       THEN ReturnEmpty
       ELSE pc' = "expand" /\ UNCHANGED <<ret, status>>
    /\ UNCHANGED <<inputBgr, params, p, work, smallBlocksBgr, palette, dwork, dpos,
                   kmeansCall, out>>

\* QuantizeWithKMeansLabDither up to the start of its diffusion loop.
KMeansLabDitherBegin ==
    /\ UNCHANGED appVars
    /\ pc = "quantize"
    /\ p.dither
    /\ p.palettePreset = "Custom"
    /\ LET total == smallBlocksBgr.w * smallBlocksBgr.h
           K == EffectiveClusters(p.paletteSize, total)
       IN  /\ kmeansCall' = [K |-> K, total |-> total]
           /\ stages' = Append(stages, "kmeansDither")
           /\ IF total = 1
              THEN \E o1 \in OutOfBoundsReads, g2 \in GarbageColors :
                      IF o1.kind = "threw"
                      THEN Throw /\ UNCHANGED <<palette, dwork, dpos>>
                      ELSE /\ palette' = <<o1.color, g2>>
                           /\ dwork' = smallBlocksBgr
                           /\ dpos' = 0
                           /\ pc' = "dither"
                           /\ UNCHANGED <<ret, status>>
              ELSE \E o \in KMeansOutcomes(smallBlocksBgr, K) :
                      /\ palette' = o.centers
                      /\ dwork' = smallBlocksBgr
                      /\ dpos' = 0
                      /\ pc' = "dither"
                      /\ UNCHANGED <<ret, status>>
    /\ UNCHANGED <<inputBgr, params, p, work, smallBlocksBgr, quantizedSmallBgr, out>>

\* QuantizeWithFixedPaletteDither up to the start of its diffusion loop.
FixedPaletteDitherBegin ==
    /\ UNCHANGED appVars
    /\ pc = "quantize"
    /\ p.dither
    /\ p.palettePreset # "Custom"
    /\ stages' = Append(stages, "fixedDither")
    /\ IF Len(GetPaletteColors(p.palettePreset)) = 0
       THEN ReturnEmpty /\ UNCHANGED <<palette, dwork, dpos>>
       ELSE /\ palette' = GetPaletteColors(p.palettePreset)
            /\ dwork' = smallBlocksBgr
            /\ dpos' = 0
            /\ pc' = "dither"
            /\ UNCHANGED <<ret, status>>
    /\ UNCHANGED <<inputBgr, params, p, work, smallBlocksBgr, quantizedSmallBgr,
                   kmeansCall, out>>

\* One iteration of the diffusion loop: cell dpos of the raster scan.
DitherStep ==
    /\ UNCHANGED appVars
    /\ pc = "dither"
    /\ dpos < dwork.w * dwork.h
    /\ dwork' = DitherCell(dwork, dpos % dwork.w, dpos \div dwork.w, palette)
    /\ dpos' = dpos + 1
    /\ UNCHANGED <<inputBgr, params, p, work, smallBlocksBgr, quantizedSmallBgr, palette,
                   kmeansCall, out, ret, status, stages, pc>>

\* return work; the grid becomes quantizedSmallBgr.
DitherReturn ==
    /\ UNCHANGED appVars
    /\ pc = "dither"
    /\ dpos = dwork.w * dwork.h
    /\ quantizedSmallBgr' = dwork
    /\ pc' = "expand"
    /\ UNCHANGED <<inputBgr, params, p, work, smallBlocksBgr, palette, dwork, dpos,
                   kmeansCall, out, ret, status, stages>>

\* Step 4: block expansion to the size of the input.
Expand ==
    /\ UNCHANGED appVars
    /\ pc = "expand"
    /\ out' = ExpandBlocksBGR(quantizedSmallBgr, inputBgr.w, inputBgr.h, p.blockSize)
    /\ stages' = Append(stages, "expand")
    /\ pc' = "edge"
    /\ UNCHANGED <<inputBgr, params, p, work, smallBlocksBgr, quantizedSmallBgr, palette,
                   dwork, dpos, kmeansCall, ret, status>>

\* The edge enhancement runs whatever the flag says.
EdgeEnhanceUnconditional ==
    /\ UNCHANGED appVars
    /\ pc = "edge"
    /\ out' = ApplyEdgeEnhancementInPlace(out, EdgeStrengthTenths)
    /\ stages' = Append(stages, "edge")
    /\ pc' = "outline"
    /\ UNCHANGED <<inputBgr, params, p, work, smallBlocksBgr, quantizedSmallBgr, palette,
                   dwork, dpos, kmeansCall, ret, status>>

\* Step 5: optional edge enhancement.
EdgeEnhance ==
    /\ UNCHANGED appVars
    /\ pc = "edge"
    /\ IF p.edgeEnhance /\ ~IsEmpty(out)
       THEN /\ out' = ApplyEdgeEnhancementInPlace(out, EdgeStrengthTenths)
            /\ stages' = Append(stages, "edge")
       ELSE UNCHANGED <<out, stages>>
    /\ pc' = "outline"
    /\ UNCHANGED <<inputBgr, params, p, work, smallBlocksBgr, quantizedSmallBgr, palette,
                   dwork, dpos, kmeansCall, ret, status>>

\* Step 6: optional outline, then return out.
OutlineAndReturn ==
    /\ UNCHANGED appVars
    /\ pc = "outline"
    /\ IF p.outline /\ ~IsEmpty(out)
       THEN /\ p' = [p EXCEPT !.outlineThickness =
                        ClampInt(p.outlineThickness, MinOutlineThickness, MaxOutlineThickness)]
            /\ out' = ApplyPixelArtOutline(out, p'.outlineThickness)
            /\ stages' = Append(stages, "outline")
       ELSE UNCHANGED <<p, out, stages>>
    /\ ret' = out'
    /\ status' = "returned"
    /\ pc' = "done"
    /\ UNCHANGED <<inputBgr, params, work, smallBlocksBgr, quantizedSmallBgr, palette,
                   dwork, dpos, kmeansCall>>

Next ==
    \/ Enter
    \/ PreBlur
    \/ BlockReduce
    \/ QuantizeWithKMeansLab
    \/ QuantizeFixed
    \/ KMeansLabDitherBegin
    \/ FixedPaletteDitherBegin
    \/ DitherStep
    \/ DitherReturn
    \/ Expand
    \/ EdgeEnhance
    \/ OutlineAndReturn

Spec == Init /\ [][Next]_vars

(***************************************************************************)
(* The Block Reducer on its own: the pre-smoother and the reducer applied  *)
(* to every image of the model for every block size 1 .. MaxBlock.         *)
(***************************************************************************)
MaxBlock == 4

ReduceParams ==
    [blockSize : 1 .. MaxBlock, paletteSize : {16}, preBlur : BOOLEAN,
     edgeEnhance : {FALSE}, dither : {FALSE}, outline : {FALSE},
     outlineThickness : {1}, palettePreset : {"Custom"}]

InitReduce ==
    /\ AppConstructed
    /\ inputBgr \in ValidImages
    /\ params \in ReduceParams
    /\ p = ClampParams(params)
    /\ work = inputBgr
    /\ smallBlocksBgr = EmptyMat
    /\ quantizedSmallBgr = EmptyMat
    /\ palette = << >>
    /\ dwork = EmptyMat
    /\ dpos = 0
    /\ kmeansCall = NoCall
    /\ out = EmptyMat
    /\ ret = EmptyMat
    /\ status = "running"
    /\ stages = << >>
    /\ pc = "preblur"

NextReduce ==
    \/ PreBlur
    \/ BlockReduce

SpecReduce == InitReduce /\ [][NextReduce]_vars

(***************************************************************************)
(* Properties.                                                             *)
(***************************************************************************)
\* A valid input of Process: non-empty, 8-bit, 3 channels.
IsValidInput == inputBgr.w > 0 /\ inputBgr.h > 0 /\ inputBgr.type = "CV_8UC3"

Returned == pc = "done" /\ status = "returned"

CeilDiv(a, b) == IF a % b = 0 THEN a \div b ELSE (a \div b) + 1

\* The tiles of the w x h image for the clamped block size of the call.
TileOf(t) == TileRect(t[1], t[2], p.blockSize, inputBgr.w, inputBgr.h)
TileCells == Coords(CeilDiv(inputBgr.w, p.blockSize), CeilDiv(inputBgr.h, p.blockSize))

UniformTiles(img) ==
    \A t \in TileCells : \A a \in TileOf(t), b \in TileOf(t) : img.pix[a] = img.pix[b]

\* C1: for a valid input and any parameter record, the image Process
\* returns has the width and the height of the input.
C1_OutputSizeEqualsInput ==
    (Returned /\ IsValidInput) => (ret.w = inputBgr.w /\ ret.h = inputBgr.h)

C1_Witness ==
    /\ Returned
    /\ IsValidInput
    /\ inputBgr.w = 3 /\ inputBgr.h = 2
    /\ p.blockSize = 2
    /\ ret.w = 3 /\ ret.h = 2

\* C2: an empty input, or one that is not 8-bit 3-channel, makes Process
\* return the empty image at once: no stage runs, nothing is produced, and
\* nothing is thrown.
C2_InvalidInputReturnsEmpty ==
    (~IsValidInput /\ pc # "call") =>
        /\ pc = "done"
        /\ status = "returned"
        /\ IsEmpty(ret)
        /\ stages = << >>
        /\ IsEmpty(work) /\ IsEmpty(smallBlocksBgr) /\ IsEmpty(quantizedSmallBgr)
        /\ IsEmpty(out)

C2_Witness ==
    /\ pc = "done"
    /\ inputBgr.w > 0 /\ inputBgr.h > 0 /\ inputBgr.type = "CV_8UC1"
    /\ IsEmpty(ret)

\* C3: for a valid input, whatever the integers given for blockSize,
\* paletteSize and outlineThickness, Process completes and returns a
\* non-empty image.
C3_AlwaysCompletes ==
    (pc = "done" /\ IsValidInput) => (status = "returned" /\ ~IsEmpty(ret))

\* C4: the cluster count handed to k-means never exceeds the number of
\* samples of the tile grid.
C4_ClustersWithinSamples ==
    kmeansCall # NoCall => kmeansCall.K <= kmeansCall.total

\* C5 as stated: without dithering and with a fixed preset, every pixel of
\* the output is an entry of the preset's palette.
C5_OutputInPalette ==
    (Returned /\ IsValidInput /\ ~params.dither /\ params.palettePreset # "Custom") =>
        \A c \in Coords(ret.w, ret.h) :
            ret.pix[c] \in PaletteSet(GetPaletteColors(params.palettePreset))

\* C5 amended: the same, when edge enhancement and outline are off as well.
C5_OutputInPaletteNoPostProcessing ==
    (/\ Returned /\ IsValidInput
     /\ ~params.dither /\ params.palettePreset # "Custom"
     /\ ~params.edgeEnhance /\ ~params.outline) =>
        \A c \in Coords(ret.w, ret.h) :
            ret.pix[c] \in PaletteSet(GetPaletteColors(params.palettePreset))

C5_Witness ==
    /\ Returned /\ IsValidInput
    /\ ~params.dither /\ params.palettePreset = "CGA"
    /\ ~params.edgeEnhance /\ ~params.outline
    /\ inputBgr.w = 3 /\ inputBgr.h = 2
    /\ \E a \in Coords(ret.w, ret.h), b \in Coords(ret.w, ret.h) : ret.pix[a] # ret.pix[b]
    /\ \A c \in Coords(ret.w, ret.h) : ret.pix[c] # inputBgr.pix[c]

\* C6 as stated: without dithering, all pixels of one tile of the output
\* have the same colour.
C6_TilesUniform ==
    (Returned /\ IsValidInput /\ ~params.dither) => UniformTiles(ret)

\* C6 amended: the same, when edge enhancement and outline are off as well.
C6_TilesUniformNoPostProcessing ==
    (/\ Returned /\ IsValidInput
     /\ ~params.dither /\ ~params.edgeEnhance /\ ~params.outline) => UniformTiles(ret)

C6_Witness ==
    /\ Returned /\ IsValidInput
    /\ ~params.dither /\ ~params.edgeEnhance /\ ~params.outline
    /\ inputBgr.w = 3 /\ inputBgr.h = 2 /\ p.blockSize = 2
    /\ ret.pix[<<0, 0>>] = ret.pix[<<1, 1>>]
    /\ ret.pix[<<2, 0>>] # ret.pix[<<0, 0>>]

\* C7: with blockSize >= max(width, height) and dithering, outline and edge
\* enhancement off, in any palette mode, the tile grid is 1 x 1 and Process
\* returns an image of the input's size in one single colour.
C7_SolidColour ==
    (/\ pc = "done" /\ IsValidInput
     /\ params.blockSize >= Max(inputBgr.w, inputBgr.h)
     /\ ~params.dither /\ ~params.outline /\ ~params.edgeEnhance) =>
        /\ status = "returned"
        /\ smallBlocksBgr.w = 1 /\ smallBlocksBgr.h = 1
        /\ ret.w = inputBgr.w /\ ret.h = inputBgr.h
        /\ \A a \in Coords(ret.w, ret.h), b \in Coords(ret.w, ret.h) : ret.pix[a] = ret.pix[b]

\* C8: the tile grid has ceil(w / blockSize) columns and ceil(h / blockSize)
\* rows, and every source pixel lies in exactly one tile.
C8_TileGrid ==
    ~IsEmpty(smallBlocksBgr) =>
        /\ smallBlocksBgr.w = CeilDiv(work.w, p.blockSize)
        /\ smallBlocksBgr.h = CeilDiv(work.h, p.blockSize)
        /\ \A c \in Coords(work.w, work.h) :
              Cardinality({t \in Coords(smallBlocksBgr.w, smallBlocksBgr.h) :
                              c \in TileRect(t[1], t[2], p.blockSize, work.w, work.h)}) = 1

C8_Witness ==
    /\ ~IsEmpty(smallBlocksBgr)
    /\ work.w = 3 /\ work.h = 2 /\ p.blockSize = 2
    /\ smallBlocksBgr.w = 2 /\ smallBlocksBgr.h = 1

\* The mean of one channel over a tile, rounded to the nearest integer.
BlockMeanRounded(img, rect, ch) ==
    LRound(SumOver([c \in rect |-> img.pix[c][ch]], rect), Cardinality(rect))

\* C9: every channel of a tile's representative colour is the mean of that
\* channel over the pixels of the tile, rounded to the nearest integer.
C9_MeanRoundedToNearest ==
    ~IsEmpty(smallBlocksBgr) =>
        \A t \in Coords(smallBlocksBgr.w, smallBlocksBgr.h) : \A ch \in 1 .. 3 :
            smallBlocksBgr.pix[t][ch] =
                BlockMeanRounded(work, TileRect(t[1], t[2], p.blockSize, work.w, work.h), ch)

\* C10: in dithered mode every visited cell of the grid is a palette colour
\* and is never written again; the finished grid holds palette colours only.
DitherVisited == {c \in Coords(dwork.w, dwork.h) : c[2] * dwork.w + c[1] < dpos}

C10_VisitedCellsStayPalette ==
    /\ [](pc = "dither" => \A c \in DitherVisited : dwork.pix[c] \in PaletteSet(palette))
    /\ [][pc = "dither" => \A c \in DitherVisited : dwork'.pix[c] = dwork.pix[c]]_vars
    /\ []((params.dither /\ pc \in {"expand", "edge", "outline"}) =>
            \A c \in Coords(quantizedSmallBgr.w, quantizedSmallBgr.h) :
                quantizedSmallBgr.pix[c] \in PaletteSet(palette))

C10_Witness ==
    /\ pc = "dither"
    /\ dwork.w = 3 /\ dwork.h = 2
    /\ dpos = 4
    /\ dwork.pix[<<1, 1>>] # smallBlocksBgr.pix[<<1, 1>>]
    /\ dwork.pix[<<1, 1>>] \notin PaletteSet(palette)


(***************************************************************************)
(* The dithered colour mapper on its own: QuantizeWithFixedPaletteDither   *)
(* as a function of a tile grid and a preset, applied to a flat grid and   *)
(* then to its own result.                                                 *)
(***************************************************************************)
QuantizeWithFixedPaletteDither(smallBgr, preset) ==
    IF IsEmpty(smallBgr) \/ smallBgr.type # "CV_8UC3" THEN EmptyMat
    ELSE LET colors == GetPaletteColors(preset)
         IN  IF Len(colors) = 0 THEN EmptyMat
             ELSE DitherFrom(smallBgr, 0, colors)

FixedPresets == Presets \ {"Custom"}

\* Flat colours: the two colours of the input images, entries of the
\* palettes, and greys lying between palette entries.
FlatColors ==
    PixelColors \cup {<<0, 0, 0>>, <<15, 56, 15>>, <<255, 255, 255>>, <<121, 121, 121>>}

\* A parameter record that selects a preset and nothing else.
PresetParams(preset) ==
    [blockSize |-> 1, paletteSize |-> 16, preBlur |-> FALSE, edgeEnhance |-> FALSE,
     dither |-> TRUE, outline |-> FALSE, outlineThickness |-> 1, palettePreset |-> preset]

InitDither ==
    /\ AppConstructed
    /\ inputBgr = EmptyMat
    /\ params \in {PresetParams(ps) : ps \in FixedPresets}
    /\ p = params
    /\ work = EmptyMat
    /\ smallBlocksBgr \in {Image(w, h, "flat", c, c) :
                              w \in 1 .. MaxW, h \in 1 .. MaxH, c \in FlatColors}
    /\ quantizedSmallBgr = EmptyMat
    /\ palette = GetPaletteColors(params.palettePreset)
    /\ dwork = EmptyMat
    /\ dpos = 0
    /\ kmeansCall = NoCall
    /\ out = EmptyMat
    /\ ret = EmptyMat
    /\ status = "running"
    /\ stages = << >>
    /\ pc = "quantize"

\* Dither(G, P): the mapper applied to the flat grid.
DitherOnce ==
    /\ UNCHANGED appVars
    /\ pc = "quantize"
    /\ quantizedSmallBgr' = QuantizeWithFixedPaletteDither(smallBlocksBgr, p.palettePreset)
    /\ stages' = Append(stages, "fixedDither")
    /\ pc' = "again"
    /\ UNCHANGED <<inputBgr, params, p, work, smallBlocksBgr, palette, dwork, dpos,
                   kmeansCall, out, ret, status>>

\* Dither(Dither(G, P), P): the mapper applied to its own result, which
\* is kept in dwork.
DitherAgain ==
    /\ UNCHANGED appVars
    /\ pc = "again"
    /\ dwork' = quantizedSmallBgr
    /\ quantizedSmallBgr' = QuantizeWithFixedPaletteDither(quantizedSmallBgr, p.palettePreset)
    /\ stages' = Append(stages, "fixedDither")
    /\ pc' = "done"
    /\ UNCHANGED <<inputBgr, params, p, work, smallBlocksBgr, palette, dpos,
                   kmeansCall, out, ret, status>>

NextDither ==
    \/ DitherOnce
    \/ DitherAgain

SpecDither == InitDither /\ [][NextDither]_vars

\* The colour of a flat grid.
FlatColorOf(grid) == grid.pix[<<0, 0>>]

\* C11: for a fixed preset P and a flat tile grid G, dithering the dithered
\* grid again changes nothing, Dither(Dither(G, P), P) = Dither(G, P), and
\* Dither(G, P) = G when the colour of G is an entry of P.
C11_DitherIdempotentOnFlat ==
    /\ (pc = "done") => (quantizedSmallBgr = dwork)
    /\ (pc = "again" /\ FlatColorOf(smallBlocksBgr) \in PaletteSet(palette))
          => (quantizedSmallBgr = smallBlocksBgr)

\* The second application has run on a grid that the first one made
\* non-flat by diffusing the quantization error.
C11_Witness ==
    /\ pc = "done"
    /\ quantizedSmallBgr = dwork
    /\ FlatColorOf(smallBlocksBgr) \notin PaletteSet(palette)
    /\ \E a \in Coords(dwork.w, dwork.h) : dwork.pix[a] # FlatColorOf(dwork)

(***************************************************************************)
(* The palette table and the direct colour mapper on their own:            *)
(* GetPaletteColors for every preset, then QuantizeWithFixedPalette and    *)
(* FindNearestPaletteColor on a one-cell grid of a probe colour.           *)
(***************************************************************************)
\* Channel values of the probe colours: palette levels and midpoints
\* between two palette levels, where two entries are equally near.
ChannelLevels == {0, 47, 121, 170, 255}

ProbeColors == {<<b, g, r>> : b \in ChannelLevels, g \in ChannelLevels, r \in ChannelLevels}

InitPalette ==
    /\ AppConstructed
    /\ inputBgr = EmptyMat
    /\ params \in {PresetParams(ps) : ps \in Presets}
    /\ p = params
    /\ work = EmptyMat
    /\ smallBlocksBgr \in {Image(1, 1, "flat", c, c) : c \in ProbeColors}
    /\ quantizedSmallBgr = EmptyMat
    /\ palette = << >>
    /\ dwork = EmptyMat
    /\ dpos = 0
    /\ kmeansCall = NoCall
    /\ out = EmptyMat
    /\ ret = EmptyMat
    /\ status = "running"
    /\ stages = << >>
    /\ pc = "palette"

\* std::vector<cv::Vec3b> palette = GetPaletteColors(preset);
LookUpPalette ==
    /\ UNCHANGED appVars
    /\ pc = "palette"
    /\ palette' = GetPaletteColors(p.palettePreset)
    /\ pc' = "quantize"
    /\ UNCHANGED <<inputBgr, params, p, work, smallBlocksBgr, quantizedSmallBgr, dwork,
                   dpos, kmeansCall, out, ret, status, stages>>

\* The grid mapped by QuantizeWithFixedPalette (into quantizedSmallBgr) and
\* cell by cell by FindNearestPaletteColor (into dwork).
MapDirect ==
    /\ UNCHANGED appVars
    /\ pc = "quantize"
    /\ quantizedSmallBgr' = QuantizeWithFixedPalette(smallBlocksBgr, p.palettePreset)
    /\ dwork' = [smallBlocksBgr EXCEPT !.pix =
                    [c \in Coords(smallBlocksBgr.w, smallBlocksBgr.h) |->
                        FindNearestPaletteColor(smallBlocksBgr.pix[c], palette)]]
    /\ stages' = Append(stages, "fixed")
    /\ pc' = "done"
    /\ UNCHANGED <<inputBgr, params, p, work, smallBlocksBgr, palette, dpos,
                   kmeansCall, out, ret, status>>

NextPalette ==
    \/ LookUpPalette
    \/ MapDirect

SpecPalette == InitPalette /\ [][NextPalette]_vars

PaletteLookedUp == pc \in {"quantize", "done"}

\* C12: GetPaletteColors returns 54 colours for NES, 16 for Pico8, EGA and
\* Commodore64, 4 for GameBoy, GameBoyPocket and CGA, and none for Custom.
C12_PaletteLengths ==
    PaletteLookedUp =>
        Len(palette) =
            CASE p.palettePreset = "NES" -> 54
              [] p.palettePreset \in {"Pico8", "EGA", "Commodore64"} -> 16
              [] p.palettePreset \in {"GameBoy", "GameBoyPocket", "CGA"} -> 4
              [] OTHER -> 0

\* C13: no two entries of the list GetPaletteColors returns for a fixed
\* preset are the same colour triple.
C13_PaletteEntriesDistinct ==
    PaletteLookedUp =>
        \A i \in 1 .. Len(palette), j \in 1 .. Len(palette) :
            (i # j) => (palette[i] # palette[j])

\* A colour given by name as red, green, blue, in the channel order
\* (B, G, R) of the image.
Bgr(r, g, b) == <<b, g, r>>

\* C14: the palette entries are stored in the channel order (B, G, R) of
\* the image; the CGA palette is black, cyan (R=85, G=255, B=255), magenta
\* (R=255, G=85, B=255) and white.
C14_CgaColoursInBgrOrder ==
    (PaletteLookedUp /\ p.palettePreset = "CGA") =>
        palette = <<Bgr(0, 0, 0), Bgr(85, 255, 255), Bgr(255, 85, 255), Bgr(255, 255, 255)>>

\* The entries of the palette at minimal squared distance from a colour.
NearestIndices(color) ==
    {i \in 1 .. Len(palette) :
        \A j \in 1 .. Len(palette) :
            ColorDistanceSquared(color, palette[i]) <= ColorDistanceSquared(color, palette[j])}

LowestIndex(S) == CHOOSE i \in S : \A j \in S : i <= j

\* C16: the direct mapper replaces a tile colour by a palette entry at
\* minimal squared distance, the one of lowest index when several are
\* equally near, and QuantizeWithFixedPalette and FindNearestPaletteColor
\* give the same colour.
C16_NearestLowestIndex ==
    (pc = "done" /\ p.palettePreset # "Custom") =>
        \A c \in Coords(smallBlocksBgr.w, smallBlocksBgr.h) :
            /\ quantizedSmallBgr.pix[c] = palette[LowestIndex(NearestIndices(smallBlocksBgr.pix[c]))]
            /\ dwork.pix[c] = quantizedSmallBgr.pix[c]

\* A probe colour with two different palette colours equally near.
C16_Witness ==
    /\ pc = "done"
    /\ p.palettePreset # "Custom"
    /\ \E i \in NearestIndices(smallBlocksBgr.pix[<<0, 0>>]),
          j \in NearestIndices(smallBlocksBgr.pix[<<0, 0>>]) :
            /\ i < j
            /\ palette[i] # palette[j]
            /\ quantizedSmallBgr.pix[<<0, 0>>] = palette[i]

(***************************************************************************)
(* Process on images made of tile-aligned solid-colour blocks, with a      *)
(* fixed preset and every optional stage off.                              *)
(***************************************************************************)
TileColors == <<(<<20, 30, 40>>), (<<200, 120, 41>>), (<<240, 250, 245>>), (<<120, 120, 0>>)>>

\* The colour of tile (tx, ty) in the colouring with steps a and b.
TileColorAt(tx, ty, a, b) == TileColors[((a * tx + b * ty) % Len(TileColors)) + 1]

\* A w x h image whose blockSize x blockSize tiles are each of one colour.
TiledImage(w, h, blockSize, a, b) ==
    [w |-> w, h |-> h, type |-> "CV_8UC3",
     pix |-> [c \in Coords(w, h) |->
                TileColorAt(c[1] \div blockSize, c[2] \div blockSize, a, b)]]

\* Grids of up to MaxW x MaxH tiles; the last column and the last row of
\* tiles are whole or one pixel short.
TiledImages(blockSize) ==
    {TiledImage(w, h, blockSize, a, b) :
        w \in {n \in 1 .. MaxW * blockSize :
                 \E g \in 1 .. MaxW : n \in {g * blockSize, g * blockSize - 1}},
        h \in {n \in 1 .. MaxH * blockSize :
                 \E g \in 1 .. MaxH : n \in {g * blockSize, g * blockSize - 1}},
        a \in {0, 1}, b \in {0, 2}}

TilePresets == {"CGA", "GameBoy", "Pico8"}

TileParams ==
    [blockSize : 1 .. MaxBlock, paletteSize : {16}, preBlur : {FALSE},
     edgeEnhance : {FALSE}, dither : {FALSE}, outline : {FALSE},
     outlineThickness : {1}, palettePreset : TilePresets]

InitTiles ==
    /\ AppConstructed
    /\ params \in TileParams
    /\ inputBgr \in TiledImages(params.blockSize)
    /\ p = params
    /\ work = EmptyMat
    /\ smallBlocksBgr = EmptyMat
    /\ quantizedSmallBgr = EmptyMat
    /\ palette = << >>
    /\ dwork = EmptyMat
    /\ dpos = 0
    /\ kmeansCall = NoCall
    /\ out = EmptyMat
    /\ ret = EmptyMat
    /\ status = "running"
    /\ stages = << >>
    /\ pc = "call"

NextTiles ==
    \/ Enter
    \/ PreBlur
    \/ BlockReduce
    \/ QuantizeFixed
    \/ Expand
    \/ EdgeEnhance
    \/ OutlineAndReturn

SpecTiles == InitTiles /\ [][NextTiles]_vars

\* Squared distance of two colours in RGB space, written out.
SquaredRgbDistance(a, b) ==
    (a[1] - b[1]) * (a[1] - b[1]) + (a[2] - b[2]) * (a[2] - b[2])
        + (a[3] - b[3]) * (a[3] - b[3])

\* n is an entry of the preset at minimal distance from colour c.
IsNearestPresetColor(n, c) ==
    LET entries == PaletteSet(GetPaletteColors(p.palettePreset))
    IN  /\ n \in entries
        /\ \A q \in entries : SquaredRgbDistance(c, n) <= SquaredRgbDistance(c, q)

\* C15: for an image of tile-aligned solid-colour blocks, a fixed preset
\* and no optional stage, every block of the output is uniformly the
\* preset colour nearest to the block's source colour.
C15_BlocksBecomeNearestPresetColor ==
    Returned =>
        /\ ret.w = inputBgr.w /\ ret.h = inputBgr.h
        /\ UniformTiles(ret)
        /\ \A c \in Coords(inputBgr.w, inputBgr.h) :
              IsNearestPresetColor(ret.pix[c], inputBgr.pix[c])

\* The scenario: a grid of 2 x 2 blocks of four different colours with
\* blockSize 2 and the CGA preset.
C15_Witness ==
    /\ Returned
    /\ p.palettePreset = "CGA"
    /\ p.blockSize = 2
    /\ inputBgr.w = 4 /\ inputBgr.h = 4
    /\ Cardinality({inputBgr.pix[c] : c \in Coords(inputBgr.w, inputBgr.h)}) = 4
    /\ Cardinality({ret.pix[c] : c \in Coords(ret.w, ret.h)}) >= 2

(***************************************************************************)
(* The Outline Extractor on its own: step 6 of Process applied to images   *)
(* of one colour and to images of two one-colour regions.                  *)
(***************************************************************************)
MaxOutlineW == 4
MaxOutlineH == 3

\* The colours of the input images, a bright one, two at distance 40 and
\* 39 from the first (on and just under the colour distance threshold) and
\* two greys on the brightness limits 64 and 192 of the darkening.
OutlineColors ==
    PixelColors \cup {<<250, 250, 250>>, <<60, 30, 40>>, <<59, 30, 40>>,
                      <<64, 64, 64>>, <<192, 192, 192>>}

\* The pixels at x >= sx and y >= sy have colour c2, the others c1.
RegionImage(w, h, sx, sy, c1, c2) ==
    [w |-> w, h |-> h, type |-> "CV_8UC3",
     pix |-> [c \in Coords(w, h) |-> IF c[1] >= sx /\ c[2] >= sy THEN c2 ELSE c1]]

OutlineImages ==
    UNION {{RegionImage(w, h, sx, sy, c1, c2) :
                sx \in 0 .. w, sy \in 0 .. h, c1 \in OutlineColors, c2 \in OutlineColors} :
            w \in 1 .. MaxOutlineW, h \in 1 .. MaxOutlineH}

\* Thicknesses asked for, one below and one above the range 1 .. 5.
OutlineParams ==
    [blockSize : {1}, paletteSize : {16}, preBlur : {FALSE},
     edgeEnhance : {FALSE}, dither : {FALSE}, outline : {TRUE},
     outlineThickness : (MinOutlineThickness - 1) .. (MaxOutlineThickness + 1),
     palettePreset : {"Custom"}]

\* Process at step 6, out being the image; work keeps a copy of it.
InitOutline ==
    /\ AppConstructed
    /\ params \in OutlineParams
    /\ inputBgr \in OutlineImages
    /\ p = params
    /\ work = inputBgr
    /\ smallBlocksBgr = EmptyMat
    /\ quantizedSmallBgr = EmptyMat
    /\ palette = << >>
    /\ dwork = EmptyMat
    /\ dpos = 0
    /\ kmeansCall = NoCall
    /\ out = inputBgr
    /\ ret = EmptyMat
    /\ status = "running"
    /\ stages = << >>
    /\ pc = "outline"

NextOutline == OutlineAndReturn

SpecOutline == InitOutline /\ [][NextOutline]_vars

IsUniform(img) == \A a \in Coords(img.w, img.h), b \in Coords(img.w, img.h) : img.pix[a] = img.pix[b]

\* C17: the outline stage applied to an image of one colour, for every
\* thickness 1..5, marks no pixel of the edge mask and returns the image
\* byte for byte.
C17_UniformImageUntouched ==
    (Returned /\ IsUniform(work)) =>
        /\ ret = work
        /\ \A c \in Coords(work.w, work.h) :
              ~EdgeMask(work)[c] /\ ~ShapedMask(work, p.outlineThickness)[c]

C17_Witness ==
    /\ Returned
    /\ IsUniform(work)
    /\ work.w = 4 /\ work.h = 3
    /\ p.outlineThickness = 5
    /\ stages = <<"outline">>
    /\ ret = work

\* The pixels of img that touch, left, right, above or below, a pixel of
\* another colour.
FourNeighbours(c) == {<<c[1] + 1, c[2]>>, <<c[1] - 1, c[2]>>, <<c[1], c[2] + 1>>, <<c[1], c[2] - 1>>}
BoundaryPixels(img) ==
    {c \in Coords(img.w, img.h) :
        \E n \in FourNeighbours(c) \cap Coords(img.w, img.h) : img.pix[n] # img.pix[c]}

\* C18: with the outline on, for every thickness 1..5, the pixels along
\* the boundary between two one-colour regions that differ by more than
\* the thresholds are darkened in the output; with thickness 1 the opening
\* takes only isolated pixels off the mask, not the boundary.
C18_BoundaryDarkened ==
    Returned =>
        \A c \in BoundaryPixels(work) :
            /\ ret.pix[c] # work.pix[c]
            /\ \A ch \in 1 .. 3 : ret.pix[c][ch] <= work.pix[c][ch]

(***************************************************************************)
(* Properties of a whole call of Process (specification Spec).             *)
(***************************************************************************)
\* C19: Process never changes the caller's parameter record or the source
\* image, whether it returns an image, returns empty or throws: blockSize
\* is clamped to [1,256], paletteSize to [2,256] and outlineThickness to
\* [1,5] in the local copy only, and the work is done on a clone.
C19_CallerStateUntouched ==
    /\ [][inputBgr' = inputBgr /\ params' = params]_vars
    /\ []((pc # "call" /\ IsValidInput) =>
            /\ p.blockSize = ClampInt(params.blockSize, 1, 256)
            /\ p.paletteSize = ClampInt(params.paletteSize, 2, 256)
            /\ p.blockSize \in 1 .. 256
            /\ p.paletteSize \in 2 .. 256)
    /\ []((Returned /\ IsValidInput /\ params.outline) =>
            /\ p.outlineThickness = ClampInt(params.outlineThickness, 1, 5)
            /\ p.outlineThickness \in 1 .. 5)
    /\ []((pc = "done") =>
            \A f \in {"preBlur", "edgeEnhance", "dither", "outline", "palettePreset"} :
                p[f] = params[f])

\* A call that clamped all three and blurred its clone.
C19_Witness ==
    /\ Returned
    /\ params.blockSize = 300 /\ p.blockSize = 256
    /\ params.paletteSize = 0 /\ p.paletteSize = 2
    /\ params.outlineThickness = 9 /\ p.outlineThickness = 5
    /\ params.preBlur
    /\ work # inputBgr
    /\ ~IsEmpty(ret)

ColorsOf(img) == {img.pix[c] : c \in Coords(img.w, img.h)}

\* C20: in Custom mode with edgeEnhance and outline off, the output of
\* Process has at most paletteSize (clamped) different colours, with
\* direct mapping and with dithering: every tile has the colour of one of
\* the cluster centres.
C20_AtMostPaletteSizeColours ==
    (Returned /\ IsValidInput /\ p.palettePreset = "Custom"
        /\ ~p.edgeEnhance /\ ~p.outline) =>
        /\ Cardinality(ColorsOf(ret)) <= p.paletteSize
        /\ Cardinality(ColorsOf(ret)) <= kmeansCall.K
        /\ kmeansCall.K <= p.paletteSize
        /\ p.dither =>
              /\ Len(palette) = kmeansCall.K
              /\ ColorsOf(ret) \subseteq PaletteSet(palette)
        /\ (~p.dither /\ kmeansCall.total >= 2) =>
              \E o \in KMeansOutcomes(smallBlocksBgr, kmeansCall.K) :
                  ColorsOf(ret) \subseteq PaletteSet(o.centers)

\* The tile grid had more colours than clusters were asked for.
C20_Witness ==
    /\ Returned
    /\ IsValidInput
    /\ p.palettePreset = "Custom"
    /\ ~p.edgeEnhance /\ ~p.outline /\ ~p.dither
    /\ Cardinality(ColorsOf(smallBlocksBgr)) > kmeansCall.K
    /\ Cardinality(ColorsOf(ret)) = kmeansCall.K

\* The stages a call with parameter record r goes through, in order.
QuantizerOf(r) ==
    IF r.dither
    THEN (IF r.palettePreset = "Custom" THEN "kmeansDither" ELSE "fixedDither")
    ELSE (IF r.palettePreset = "Custom" THEN "kmeans" ELSE "fixed")

ExpectedStages(r) ==
    (IF r.preBlur THEN <<"preblur">> ELSE << >>)
        \o <<"reduce", QuantizerOf(r), "expand">>
        \o (IF r.edgeEnhance THEN <<"edge">> ELSE << >>)
        \o (IF r.outline THEN <<"outline">> ELSE << >>)

\* C22: in one call the stages run in the order pre-blur, block reduce,
\* colour mapping, block expand, edge enhance, outline; pre-blur, edge
\* enhance and outline run exactly when their flag is set, exactly one of
\* the four quantizers runs, and edge enhancement is over before the
\* outline starts.
C22_StagesInOrder ==
    IsValidInput =>
        /\ Len(stages) <= Len(ExpectedStages(params))
        /\ \A i \in 1 .. Len(stages) : stages[i] = ExpectedStages(params)[i]
        /\ Returned => stages = ExpectedStages(params)

\* A call with every optional stage on has returned.
C22_Witness ==
    /\ Returned
    /\ IsValidInput
    /\ params.preBlur /\ params.edgeEnhance /\ params.outline /\ params.dither
    /\ stages = <<"preblur", "reduce", "kmeansDither", "expand", "edge", "outline">>

\* Sixteenths of the error of cell cur that cell c receives.
ShareOf(cur, c) ==
    CASE c = <<cur[1] + 1, cur[2]>> -> 7
      [] c = <<cur[1] - 1, cur[2] + 1>> -> 3
      [] c = <<cur[1], cur[2] + 1>> -> 5
      [] c = <<cur[1] + 1, cur[2] + 1>> -> 1
      [] OTHER -> 0

\* v plus sixteenths/16 of e, cut to an integer and clamped to [0, 255];
\* sum is the sixteen-fold of the exact sum.
WithShare(v, e, sixteenths) ==
    LET sum == 16 * v + e * sixteenths
    IN  IF sum < 0 THEN 0 ELSE IF sum \div 16 > 255 THEN 255 ELSE sum \div 16

\* C23: the dithering visits the cells of the tile grid once, in raster
\* order; the error of the visited cell (value before mapping minus mapped
\* colour, per channel) goes to the right neighbour with weight 7/16,
\* below-left 3/16, below 5/16 and below-right 1/16, each recipient being
\* clamped to [0,255] at once; a neighbour outside the grid gets nothing
\* and its share goes to no other cell.
C23_ErrorDiffusionWeights ==
    /\ [][(pc = "dither" /\ dwork' # dwork) => dpos' = dpos + 1]_vars
    /\ [][(pc = "dither" /\ dpos' = dpos + 1) =>
            LET cur == <<dpos % dwork.w, dpos \div dwork.w>>
                error == [ch \in 1 .. 3 |-> dwork.pix[cur][ch] - dwork'.pix[cur][ch]]
            IN  /\ dwork'.w = dwork.w /\ dwork'.h = dwork.h
                /\ \A c \in Coords(dwork.w, dwork.h) \ {cur} : \A ch \in 1 .. 3 :
                      /\ dwork'.pix[c][ch] = WithShare(dwork.pix[c][ch], error[ch], ShareOf(cur, c))
                      /\ dwork'.pix[c][ch] \in 0 .. 255]_vars
    /\ []((pc = "dither") => dpos \in 0 .. dwork.w * dwork.h)

\* The second cell of a 3 x 2 grid has been visited: its error reached
\* the cell below-left, the cell to the right and the cell below-right.
C23_Witness ==
    /\ pc = "dither"
    /\ dpos = 2
    /\ dwork.w = 3 /\ dwork.h = 2
    /\ dwork.pix[<<0, 1>>] # smallBlocksBgr.pix[<<0, 1>>]
    /\ dwork.pix[<<2, 0>>] # smallBlocksBgr.pix[<<2, 0>>]
    /\ dwork.pix[<<2, 1>>] # smallBlocksBgr.pix[<<2, 1>>]

(***************************************************************************)
(* Properties of the outline stage (specification SpecOutline).            *)
(***************************************************************************)
InBoundsNeighbours(img, c) == FourNeighbours(c) \cap Coords(img.w, img.h)

\* Luminance difference above 35 or colour distance above 40.
ExceedsThresholds(a, b) ==
    \/ Abs(Luminance(a) - Luminance(b)) > 35
    \/ SquaredRgbDistance(a, b) > 40 * 40

\* Luminance difference of at least 35 or colour distance of at least 40.
ReachesThresholds(a, b) ==
    \/ Abs(Luminance(a) - Luminance(b)) >= 35
    \/ SquaredRgbDistance(a, b) >= 40 * 40

\* The mask after the morphology step, from a given raw mask.
ShapedFrom(mask, img, thickness) ==
    IF thickness = 1
    THEN Dilate(Erode(mask, img.w, img.h, CrossKernel), img.w, img.h, CrossKernel)
    ELSE Dilate(mask, img.w, img.h, RectKernel(thickness))

\* C24 as stated: a pixel is marked exactly when an in-bounds 4-connected
\* neighbour differs from it by a luminance difference exceeding 35 or a
\* colour distance exceeding 40.
C24_EdgeIffExceeding ==
    Returned =>
        \A c \in Coords(work.w, work.h) :
            EdgeMask(work)[c] <=>
                \E n \in InBoundsNeighbours(work, c) : ExceedsThresholds(work.pix[c], work.pix[n])

\* C24: a pixel is marked exactly when an in-bounds 4-connected neighbour
\* differs from it by a luminance difference of at least 35 or a colour
\* distance of at least 40; the mask comes from the image as it was before
\* the darkening (only pixels of the mask so computed are changed), and
\* looking at the neighbours one by one, stopping at the first that
\* differs, marks the same pixels.
C24_EdgeIffAtLeast ==
    Returned =>
        LET expected == [c \in Coords(work.w, work.h) |->
                            \E n \in InBoundsNeighbours(work, c) :
                                ReachesThresholds(work.pix[c], work.pix[n])]
        IN  /\ \A c \in Coords(work.w, work.h) : EdgeMask(work)[c] <=> expected[c]
            /\ \A c \in Coords(work.w, work.h) :
                  (ret.pix[c] # work.pix[c]) => ShapedFrom(expected, work, p.outlineThickness)[c]

\* Two regions whose colours are exactly 40 apart: the boundary is marked.
C24_Witness ==
    /\ Returned
    /\ work.w = 4 /\ work.h = 3
    /\ \E c \in Coords(work.w, work.h) :
          /\ EdgeMask(work)[c]
          /\ \A n \in InBoundsNeighbours(work, c) :
                SquaredRgbDistance(work.pix[c], work.pix[n]) \in {0, 40 * 40}
    /\ \E c \in Coords(work.w, work.h) : ret.pix[c] # work.pix[c]

\* 40 below average brightness 64, 90 above 192, 70 otherwise.
ExpectedDarkening(pixel) ==
    LET average == (pixel[1] + pixel[2] + pixel[3]) \div 3
    IN  CASE average < 64 -> 40
          [] average > 192 -> 90
          [] OTHER -> 70

PaintersOf(c) ==
    {t \in Coords(quantizedSmallBgr.w, quantizedSmallBgr.h) :
        InTile(c, t[1], t[2], p.blockSize, inputBgr.w, inputBgr.h)}

\* C26: after the expansion the output has the size of the source, every
\* pixel (x, y) whose tile (x / blockSize, y / blockSize) is in the grid
\* has that tile's colour, and when the
\* grid has ceil(w / blockSize) x ceil(h / blockSize) cells every pixel is
\* painted by exactly one tile, its own.
C26_ExpanderPaintsTiles ==
    (pc = "edge" /\ IsValidInput) =>
        /\ out.w = inputBgr.w /\ out.h = inputBgr.h
        /\ \A c \in Coords(out.w, out.h) :
              LET t == <<c[1] \div p.blockSize, c[2] \div p.blockSize>>
              IN  /\ t \in Coords(quantizedSmallBgr.w, quantizedSmallBgr.h)
                        => out.pix[c] = quantizedSmallBgr.pix[t]
                  /\ (/\ quantizedSmallBgr.w = CeilDiv(inputBgr.w, p.blockSize)
                      /\ quantizedSmallBgr.h = CeilDiv(inputBgr.h, p.blockSize))
                        => PaintersOf(c) = {t}

\* A 3 x 2 source with blocks of 2: the right tile is cut to one column and
\* paints it with its own colour, which differs from the left tile's.
C26_Witness ==
    /\ pc = "edge"
    /\ inputBgr.w = 3 /\ inputBgr.h = 2 /\ p.blockSize = 2
    /\ quantizedSmallBgr.w = 2 /\ quantizedSmallBgr.h = 1
    /\ quantizedSmallBgr.pix[<<0, 0>>] # quantizedSmallBgr.pix[<<1, 0>>]
    /\ out.pix[<<1, 1>>] = quantizedSmallBgr.pix[<<0, 0>>]
    /\ out.pix[<<2, 1>>] = quantizedSmallBgr.pix[<<1, 0>>]

(***************************************************************************)
(* GLTexture: one OpenGL texture name with the size last uploaded.         *)
(***************************************************************************)
MaxTextureName == 2

\* Names glGenTextures can hand out: never 0, never one in use.
TextureNames == 1 .. MaxTextureName
FreeNames(gl) == TextureNames \ DOMAIN gl

\* cv::cvtColor to RGBA from BGR, BGRA or grey.
CvtColorToRGBA(mat) ==
    [w |-> mat.w, h |-> mat.h, type |-> "CV_8UC4",
     pix |-> [c \in Coords(mat.w, mat.h) |->
                LET v == mat.pix[c]
                IN  CASE mat.type = "CV_8UC3" -> <<v[3], v[2], v[1], 255>>
                      [] mat.type = "CV_8UC4" -> <<v[3], v[2], v[1], v[4]>>
                      [] OTHER -> <<v[1], v[1], v[1], 255>>]]

IsValid(tex) == tex.textureId_ # 0

\* Grey images are turned away like the unsupported types.
UpdateFromMatGrayRejected(tex, gl, mat, id) ==
    IF IsEmpty(mat) \/ mat.type \notin {"CV_8UC3", "CV_8UC4"}
    THEN [ret |-> FALSE, tex |-> tex, gl |-> gl]
    ELSE LET rgba == CvtColorToRGBA(mat)
             name == IF tex.textureId_ = 0 THEN id ELSE tex.textureId_
         IN  [ret |-> TRUE,
              tex |-> [textureId_ |-> name, width_ |-> rgba.w, height_ |-> rgba.h],
              gl |-> [n \in DOMAIN gl \cup {name} |-> IF n = name THEN rgba ELSE gl[n]]]

\* UpdateFromMat on texture tex with GL state gl; id is the name
\* glGenTextures gives when the texture has none yet.
UpdateFromMat(tex, gl, mat, id) ==
    IF IsEmpty(mat) THEN [ret |-> FALSE, tex |-> tex, gl |-> gl]
    ELSE IF mat.type \notin {"CV_8UC3", "CV_8UC4", "CV_8UC1"}
    THEN [ret |-> FALSE, tex |-> tex, gl |-> gl]
    ELSE LET rgba == CvtColorToRGBA(mat)
             w == rgba.w
             h == rgba.h
         IN  IF IsEmpty(rgba) \/ rgba.type # "CV_8UC4" \/ w <= 0 \/ h <= 0
             THEN [ret |-> FALSE, tex |-> tex, gl |-> gl]
             ELSE LET name == IF tex.textureId_ = 0 THEN id ELSE tex.textureId_
                  IN  [ret |-> TRUE,
                       tex |-> [textureId_ |-> name,
                                width_ |-> IF w # tex.width_ \/ h # tex.height_
                                           THEN w ELSE tex.width_,
                                height_ |-> IF w # tex.width_ \/ h # tex.height_
                                            THEN h ELSE tex.height_],
                       gl |-> [n \in DOMAIN gl \cup {name} |->
                                 IF n = name THEN rgba ELSE gl[n]]]

\* The names glGenTextures may give to tex: none is asked for when it has one.
NamesFor(tex, gl) == IF tex.textureId_ = 0 THEN FreeNames(gl) ELSE {tex.textureId_}

\* Destroy: the name is deleted, id and size go back to 0.
Destroy(tex, gl) ==
    [tex |-> NoTexture,
     gl |-> IF tex.textureId_ # 0
            THEN [n \in DOMAIN gl \ {tex.textureId_} |-> gl[n]]
            ELSE gl]

\* Process is not running.
ProcessIdle ==
    /\ inputBgr = EmptyMat
    /\ params = DefaultParams
    /\ p = DefaultParams
    /\ work = EmptyMat
    /\ smallBlocksBgr = EmptyMat
    /\ quantizedSmallBgr = EmptyMat
    /\ palette = << >>
    /\ dwork = EmptyMat
    /\ dpos = 0
    /\ kmeansCall = NoCall
    /\ out = EmptyMat
    /\ ret = EmptyMat
    /\ status = "idle"
    /\ stages = << >>
    /\ pc = "idle"

\* Images handed to UpdateFromMat: every type at three sizes, one fill each,
\* and the empty ones.
TextureTypes == {"CV_8UC3", "CV_8UC4", "CV_8UC1", "CV_32FC3", "CV_16UC1"}
TextureSizes == {<<1, 1>>, <<2, 1>>, <<1, 2>>}

FillOf(type) ==
    CASE type \in {"CV_8UC3", "CV_32FC3"} -> <<20, 30, 40>>
      [] type = "CV_8UC4" -> <<20, 30, 40, 128>>
      [] OTHER -> <<77>>

TextureMats ==
    {[w |-> s[1], h |-> s[2], type |-> t, pix |-> [c \in Coords(s[1], s[2]) |-> FillOf(t)]] :
        s \in TextureSizes, t \in TextureTypes}
    \cup {EmptyMat, [w |-> 0, h |-> 2, type |-> "CV_8UC3", pix |-> << >>]}

InitTexture ==
    /\ ProcessIdle
    /\ AppConstructed

\* inputTex_.UpdateFromMat(mat) for any image.
TextureUpdate ==
    /\ \E mat \in TextureMats, id \in NamesFor(inputTex_, glTextures) :
          LET u == UpdateFromMat(inputTex_, glTextures, mat, id)
          IN  /\ inputTex_' = u.tex
              /\ glTextures' = u.gl
              /\ texCall' = [op |-> "UpdateFromMat", mat |-> mat, ret |-> u.ret]
    /\ UNCHANGED <<processVars, loadPath_, savePath_, status_, params_, inputBgr_,
                   outputBgr_, outputTex_, disk, loadCall, outputSource,
                   lastHandler, appPc>>

\* inputTex_.Destroy().
TextureDestroy ==
    /\ LET d == Destroy(inputTex_, glTextures)
       IN  /\ inputTex_' = d.tex
           /\ glTextures' = d.gl
    /\ texCall' = [op |-> "Destroy", mat |-> EmptyMat, ret |-> FALSE]
    /\ UNCHANGED <<processVars, loadPath_, savePath_, status_, params_, inputBgr_,
                   outputBgr_, outputTex_, disk, loadCall, outputSource,
                   lastHandler, appPc>>

NextTexture == TextureUpdate \/ TextureDestroy

SpecTexture == InitTexture /\ [][NextTexture]_vars

\* C21: a call of UpdateFromMat with an empty image or one that is not
\* CV_8UC3, CV_8UC4 or CV_8UC1 returns false and leaves id, width and height
\* as they were; with a non-empty image of those types it returns true,
\* the texture is valid afterwards, width and height are the image's
\* columns and rows, and an id already allocated is kept.
C21_UpdateFromMatContract ==
    [][texCall'.op = "UpdateFromMat" =>
          LET mat == texCall'.mat
              accepted == /\ mat.w > 0 /\ mat.h > 0
                          /\ mat.type \in {"CV_8UC3", "CV_8UC4", "CV_8UC1"}
          IN  IF accepted
              THEN /\ texCall'.ret
                   /\ inputTex_'.textureId_ # 0
                   /\ inputTex_'.width_ = mat.w
                   /\ inputTex_'.height_ = mat.h
                   /\ inputTex_.textureId_ # 0 => inputTex_'.textureId_ = inputTex_.textureId_
              ELSE /\ ~texCall'.ret
                   /\ inputTex_' = inputTex_]_vars

\* A grey 1 x 2 image has been accepted by a texture that keeps its id.
C21_Witness ==
    /\ texCall.op = "UpdateFromMat"
    /\ texCall.ret
    /\ texCall.mat.type = "CV_8UC1"
    /\ inputTex_ = [textureId_ |-> 2, width_ |-> 1, height_ |-> 2]
    /\ glTextures[2].pix[<<0, 1>>] = <<77, 77, 77, 255>>

(***************************************************************************)
(* ImageLoader: LoadBGR and Save.                                          *)
(***************************************************************************)
\* Paths the user can load from: two images and a file that is no image.
LoadPaths == {"a.png", "b.png", "notes.txt"}

\* Paths the save dialog can return.
SavePaths == {"out.png", "out.jpg"}

\* cv::imread(path, IMREAD_COLOR): an 8-bit BGR image, empty when the file
\* is missing or cannot be decoded.
Imread(path) ==
    CASE path = "a.png" -> Image(2, 1, "columns", <<20, 30, 40>>, <<200, 120, 41>>)
      [] path = "b.png" -> Image(1, 1, "flat", <<200, 120, 41>>, <<200, 120, 41>>)
      [] OTHER -> EmptyMat

\* LoadBGR(path, outBgr, outError): what it returns and leaves in its outputs.
LoadBGR(path) ==
    LET img == Imread(path)
    IN  IF IsEmpty(img)
        THEN [called |-> TRUE, ok |-> FALSE, outBgr |-> EmptyMat,
              outError |-> "Failed to load image (empty). Check path and supported formats (png/jpg)."]
        ELSE [called |-> TRUE, ok |-> TRUE, outBgr |-> img, outError |-> ""]

\* What cv::imwrite can do: write, return false, or throw cv::Exception.
ImwriteOutcomes == {"written", "false", "exception"}

\* The image is written even when it is empty.
ImageLoaderSaveWritesEmpty(path, image, imwrite) ==
    IF imwrite = "written" THEN [ok |-> TRUE, written |-> TRUE, outError |-> ""]
    ELSE [ok |-> FALSE, written |-> FALSE, outError |-> "cv::imwrite returned false."]

\* ImageLoader::Save(path, image, outError) for one outcome of cv::imwrite.
ImageLoaderSave(path, image, imwrite) ==
    IF IsEmpty(image)
    THEN [ok |-> FALSE, written |-> FALSE, outError |-> "Nothing to save (image is empty)."]
    ELSE CASE imwrite = "written" -> [ok |-> TRUE, written |-> TRUE, outError |-> ""]
           [] imwrite = "false" ->
                [ok |-> FALSE, written |-> FALSE,
                 outError |-> "cv::imwrite returned false. Check file extension and output path."]
           [] OTHER -> [ok |-> FALSE, written |-> FALSE, outError |-> "OpenCV error: "]

(***************************************************************************)
(* App: the handlers of RenderUI.                                          *)
(***************************************************************************)
\* Records the widgets and RandomizeParams can leave in params_.
AppParams ==
    {DefaultParams,
     [blockSize |-> 4, paletteSize |-> 2, preBlur |-> FALSE, edgeEnhance |-> TRUE,
      dither |-> TRUE, outline |-> TRUE, outlineThickness |-> 3, palettePreset |-> "CGA"],
     [blockSize |-> 32, paletteSize |-> 64, preBlur |-> TRUE, edgeEnhance |-> FALSE,
      dither |-> TRUE, outline |-> FALSE, outlineThickness |-> 1, palettePreset |-> "Custom"],
     [blockSize |-> 17, paletteSize |-> 16, preBlur |-> FALSE, edgeEnhance |-> FALSE,
      dither |-> FALSE, outline |-> FALSE, outlineThickness |-> 2, palettePreset |-> "CGA"]}

InitApp ==
    /\ ProcessIdle
    /\ AppConstructed

\* The load path is typed into the text field.
EditLoadPath ==
    /\ appPc = "idle"
    /\ \E path \in LoadPaths : loadPath_' = path
    /\ lastHandler' = [name |-> "Edit", dialog |-> "none"]
    /\ UNCHANGED <<processVars, savePath_, status_, params_, inputBgr_, outputBgr_,
                   inputTex_, outputTex_, glTextures, disk, loadCall, texCall,
                   outputSource, appPc>>

\* The output is kept when an image has been loaded.
LoadImageKeepsOutput(path) ==
    LET r == LoadBGR(path)
    IN  /\ loadCall' = r
        /\ IF r.ok
           THEN /\ inputBgr_' = r.outBgr
                /\ \E id \in NamesFor(inputTex_, glTextures) :
                      LET u == UpdateFromMat(inputTex_, glTextures, r.outBgr, id)
                      IN  inputTex_' = u.tex /\ glTextures' = u.gl
                /\ status_' = <<"Loaded: ", path>>
                /\ UNCHANGED <<outputBgr_, outputTex_>>
           ELSE /\ status_' = <<"Load failed: ", r.outError>>
                /\ UNCHANGED <<inputBgr_, outputBgr_, inputTex_, outputTex_, glTextures>>

\* The input is released when the load has failed.
LoadImageReleasesOnFailure(path) ==
    LET r == LoadBGR(path)
    IN  /\ loadCall' = r
        /\ IF r.ok
           THEN /\ inputBgr_' = r.outBgr
                /\ outputBgr_' = EmptyMat
                /\ \E id \in NamesFor(inputTex_, glTextures) :
                      LET u == UpdateFromMat(inputTex_, glTextures, r.outBgr, id)
                          d == Destroy(outputTex_, u.gl)
                      IN  inputTex_' = u.tex /\ outputTex_' = d.tex /\ glTextures' = d.gl
                /\ status_' = <<"Loaded: ", path>>
           ELSE /\ status_' = <<"Load failed: ", r.outError>>
                /\ inputBgr_' = r.outBgr
                /\ UNCHANGED <<outputBgr_, inputTex_, outputTex_, glTextures>>

\* The body shared by the Load button and the auto-load of Browse: LoadBGR
\* into a local image, then the fields are replaced only on success.
LoadImage(path) ==
    LET r == LoadBGR(path)
    IN  /\ loadCall' = r
        /\ IF r.ok
           THEN /\ inputBgr_' = r.outBgr
                /\ outputBgr_' = EmptyMat
                /\ \E id \in NamesFor(inputTex_, glTextures) :
                      LET u == UpdateFromMat(inputTex_, glTextures, r.outBgr, id)
                          d == Destroy(outputTex_, u.gl)
                      IN  inputTex_' = u.tex /\ outputTex_' = d.tex /\ glTextures' = d.gl
                /\ status_' = <<"Loaded: ", path>>
           ELSE /\ status_' = <<"Load failed: ", r.outError>>
                /\ UNCHANGED <<inputBgr_, outputBgr_, inputTex_, outputTex_, glTextures>>

\* Browse...: the open dialog, then the auto-load of the chosen path.
Browse ==
    /\ appPc = "idle"
    /\ \/ \E selectedPath \in LoadPaths :
             /\ lastHandler' = [name |-> "Browse", dialog |-> "confirmed"]
             /\ loadPath_' = selectedPath
             /\ LoadImage(selectedPath)
       \/ /\ lastHandler' = [name |-> "Browse", dialog |-> "cancelled"]
          /\ UNCHANGED <<loadPath_, status_, inputBgr_, outputBgr_, inputTex_, outputTex_,
                         glTextures, loadCall>>
    /\ UNCHANGED <<processVars, savePath_, params_, disk, texCall, outputSource, appPc>>

\* Load: the path of the text field.
Load ==
    /\ appPc = "idle"
    /\ lastHandler' = [name |-> "Load", dialog |-> "none"]
    /\ LoadImage(loadPath_)
    /\ UNCHANGED <<processVars, loadPath_, savePath_, params_, disk, texCall,
                   outputSource, appPc>>

\* The sliders, the palette combo and the checkboxes.
EditParams ==
    /\ appPc = "idle"
    /\ lastHandler' = [name |-> "Edit", dialog |-> "none"]
    /\ \E r \in AppParams : params_' = r
    /\ UNCHANGED <<processVars, loadPath_, savePath_, status_, inputBgr_, outputBgr_,
                   inputTex_, outputTex_, glTextures, disk, loadCall, texCall,
                   outputSource, appPc>>

\* Random Config: RandomizeParams and the status line.
RandomConfig ==
    /\ appPc = "idle"
    /\ lastHandler' = [name |-> "Random Config", dialog |-> "none"]
    /\ \E r \in {q \in AppParams : ~q.outline => q.outlineThickness = 1} : params_' = r
    /\ status_' = <<"Parameters randomized! Click 'Pixelize' to apply.", "">>
    /\ UNCHANGED <<processVars, loadPath_, savePath_, inputBgr_, outputBgr_,
                   inputTex_, outputTex_, glTextures, disk, loadCall, texCall,
                   outputSource, appPc>>

\* Pixelize: without an input only the status line; otherwise Process is
\* entered with the loaded image and the parameter record.
Pixelize ==
    /\ appPc = "idle"
    /\ pc = "idle"
    /\ lastHandler' = [name |-> "Pixelize", dialog |-> "none"]
    /\ IF IsEmpty(inputBgr_)
       THEN /\ status_' = <<"No input image loaded.", "">>
            /\ UNCHANGED <<processVars, appPc>>
       ELSE /\ inputBgr' = inputBgr_
            /\ params' = params_
            /\ p' = params_
            /\ status' = "running"
            /\ pc' = "call"
            /\ appPc' = "pixelize"
            /\ UNCHANGED <<work, smallBlocksBgr, quantizedSmallBgr, palette, dwork, dpos,
                           kmeansCall, out, ret, stages, status_>>
    /\ UNCHANGED <<loadPath_, savePath_, params_, inputBgr_, outputBgr_, inputTex_,
                   outputTex_, glTextures, disk, loadCall, texCall, outputSource>>

\* The call is over: its arguments and buffers are gone.
ProcessOver ==
    /\ inputBgr' = EmptyMat
    /\ params' = DefaultParams
    /\ p' = DefaultParams
    /\ work' = EmptyMat
    /\ smallBlocksBgr' = EmptyMat
    /\ quantizedSmallBgr' = EmptyMat
    /\ palette' = << >>
    /\ dwork' = EmptyMat
    /\ dpos' = 0
    /\ kmeansCall' = NoCall
    /\ out' = EmptyMat
    /\ ret' = EmptyMat
    /\ status' = "idle"
    /\ stages' = << >>
    /\ pc' = "idle"

\* Process has returned: the result replaces outputBgr_ and, unless it is
\* empty, is uploaded to the result texture.  Process's buffers are gone.
PixelizeReturn ==
    /\ appPc = "pixelize"
    /\ pc = "done"
    /\ status = "returned"
    /\ outputBgr_' = ret
    /\ outputSource' = inputBgr
    /\ IF IsEmpty(ret)
       THEN /\ status_' = <<"Processing failed (unexpected empty output).", "">>
            /\ UNCHANGED <<outputTex_, glTextures>>
       ELSE /\ \E id \in NamesFor(outputTex_, glTextures) :
                  LET u == UpdateFromMat(outputTex_, glTextures, ret, id)
                  IN  outputTex_' = u.tex /\ glTextures' = u.gl
            /\ status_' = <<"Processed successfully. Preview updated.", "">>
    /\ ProcessOver
    /\ appPc' = "idle"
    /\ UNCHANGED <<loadPath_, savePath_, params_, inputBgr_, inputTex_, disk, loadCall,
                   texCall, lastHandler>>

\* An exception has left Process: it leaves RenderUI and App::Run, which
\* catch nothing, so no handler runs again.
PixelizeThrow ==
    /\ appPc = "pixelize"
    /\ pc = "done"
    /\ status = "threw"
    /\ appPc' = "terminated"
    /\ UNCHANGED <<processVars, loadPath_, savePath_, status_, params_, inputBgr_,
                   outputBgr_, inputTex_, outputTex_, glTextures, disk, loadCall,
                   texCall, outputSource, lastHandler>>

\* ImageLoader::Save is called even when there is no output image.
SaveWithoutOutputCheck ==
    /\ appPc = "idle"
    /\ \E path \in IF savePath_ = "" THEN SavePaths \cup {""} ELSE {savePath_} :
          /\ lastHandler' = [name |-> "Save",
                              dialog |-> IF savePath_ # "" THEN "none"
                                         ELSE IF path = "" THEN "cancelled"
                                         ELSE "confirmed"]
          /\ IF path = ""
             THEN /\ status_' = <<"Save cancelled.", "">>
                  /\ UNCHANGED <<savePath_, disk>>
             ELSE \E imwrite \in ImwriteOutcomes :
                     LET s == ImageLoaderSaveWritesEmpty(path, outputBgr_, imwrite)
                     IN  /\ savePath_' = path
                         /\ disk' = IF s.written
                                    THEN [f \in DOMAIN disk \cup {path} |->
                                            IF f = path THEN outputBgr_ ELSE disk[f]]
                                    ELSE disk
                         /\ status_' = IF s.ok THEN <<"Saved: ", path>>
                                       ELSE <<"Save failed: ", s.outError>>
    /\ UNCHANGED <<processVars, loadPath_, params_, inputBgr_, outputBgr_,
                   inputTex_, outputTex_, glTextures, loadCall, texCall, outputSource, appPc>>

\* The save dialog is opened at every Save.
SaveAlwaysPrompts ==
    /\ appPc = "idle"
    /\ ~IsEmpty(outputBgr_)
    /\ lastHandler' = [name |-> "Save", dialog |-> "confirmed"]
    /\ \E selectedPath \in SavePaths, imwrite \in ImwriteOutcomes :
          LET s == ImageLoaderSave(selectedPath, outputBgr_, imwrite)
          IN  /\ savePath_' = selectedPath
              /\ disk' = IF s.written
                         THEN [f \in DOMAIN disk \cup {selectedPath} |->
                                 IF f = selectedPath THEN outputBgr_ ELSE disk[f]]
                         ELSE disk
              /\ status_' = IF s.ok THEN <<"Saved: ", selectedPath>>
                            ELSE <<"Save failed: ", s.outError>>
    /\ UNCHANGED <<processVars, loadPath_, params_, inputBgr_, outputBgr_,
                   inputTex_, outputTex_, glTextures, loadCall, texCall, outputSource, appPc>>

\* Save: nothing without an output; the save dialog only while savePath_ is
\* empty, a cancelled dialog ends the handler; then ImageLoader::Save.
Save ==
    /\ appPc = "idle"
    /\ IF IsEmpty(outputBgr_)
       THEN /\ status_' = <<"Nothing to save (process an image first).", "">>
            /\ lastHandler' = [name |-> "Save", dialog |-> "none"]
            /\ UNCHANGED <<savePath_, disk>>
       ELSE \E path \in IF savePath_ = "" THEN SavePaths \cup {""} ELSE {savePath_} :
               /\ lastHandler' = [name |-> "Save",
                                   dialog |-> IF savePath_ # "" THEN "none"
                                              ELSE IF path = "" THEN "cancelled"
                                              ELSE "confirmed"]
               /\ IF path = ""
                  THEN /\ status_' = <<"Save cancelled.", "">>
                       /\ UNCHANGED <<savePath_, disk>>
                  ELSE \E imwrite \in ImwriteOutcomes :
                          LET s == ImageLoaderSave(path, outputBgr_, imwrite)
                          IN  /\ savePath_' = path
                              /\ disk' = IF s.written
                                         THEN [f \in DOMAIN disk \cup {path} |->
                                                 IF f = path THEN outputBgr_ ELSE disk[f]]
                                         ELSE disk
                              /\ status_' = IF s.ok THEN <<"Saved: ", path>>
                                            ELSE <<"Save failed: ", s.outError>>
    /\ UNCHANGED <<processVars, loadPath_, params_, inputBgr_, outputBgr_,
                   inputTex_, outputTex_, glTextures, loadCall, texCall, outputSource, appPc>>

NextApp ==
    \/ EditLoadPath
    \/ Browse
    \/ Load
    \/ EditParams
    \/ RandomConfig
    \/ Pixelize
    \/ Enter
    \/ PreBlur
    \/ BlockReduce
    \/ QuantizeWithKMeansLab
    \/ QuantizeFixed
    \/ KMeansLabDitherBegin
    \/ FixedPaletteDitherBegin
    \/ DitherStep
    \/ DitherReturn
    \/ Expand
    \/ EdgeEnhance
    \/ OutlineAndReturn
    \/ PixelizeReturn
    \/ PixelizeThrow
    \/ Save

SpecApp == InitApp /\ [][NextApp]_vars

(***************************************************************************)
(* Properties of the App (specification SpecApp).                          *)
(***************************************************************************)
\* This step is a Load or a confirmed Browse, that is one call of LoadBGR.
LoadAttempted ==
    \/ lastHandler'.name = "Load"
    \/ lastHandler'.name = "Browse" /\ lastHandler'.dialog = "confirmed"

\* C27: whenever the result texture is valid, the output image is not
\* empty, an input image is loaded, the output was computed from that
\* input and the texture holds the output; and a successful Load leaves the
\* output image empty and the result texture destroyed.
C27_ResultMatchesInput ==
    /\ [](IsValid(outputTex_) =>
            /\ ~IsEmpty(outputBgr_)
            /\ ~IsEmpty(inputBgr_)
            /\ outputSource = inputBgr_
            /\ outputTex_.width_ = outputBgr_.w /\ outputTex_.height_ = outputBgr_.h
            /\ glTextures[outputTex_.textureId_] = CvtColorToRGBA(outputBgr_))
    /\ [][(LoadAttempted /\ loadCall'.ok) =>
            /\ IsEmpty(outputBgr_')
            /\ ~IsValid(outputTex_')
            /\ inputBgr_' = loadCall'.outBgr]_vars

\* b.png is loaded and processed after the result of a.png was saved.
C27_Witness ==
    /\ IsValid(outputTex_)
    /\ inputBgr_ = Imread("b.png")
    /\ outputSource = Imread("b.png")
    /\ \E f \in DOMAIN disk : disk[f].w = 2

\* C28: a Load whose LoadBGR returns false leaves the input image, the
\* output image and both textures as they were and sets the status line
\* (the Load button changes nothing else; Browse has put the chosen path in
\* the path field before loading); and LoadBGR returns false exactly when
\* it leaves its output image empty and its error message non-empty.
C28_FailedLoadChangesOnlyStatus ==
    /\ [][(LoadAttempted /\ ~loadCall'.ok) =>
            /\ UNCHANGED <<inputBgr_, outputBgr_, inputTex_, outputTex_, glTextures>>
            /\ UNCHANGED <<savePath_, params_, disk, outputSource>>
            /\ status_'[1] = "Load failed: "
            /\ lastHandler'.name = "Load" => loadPath_' = loadPath_]_vars
    /\ [](loadCall.called =>
            (~loadCall.ok <=> (IsEmpty(loadCall.outBgr) /\ loadCall.outError # "")))

\* A load has failed while a processed result is on display: it is still there.
C28_Witness ==
    /\ lastHandler.name = "Load"
    /\ loadCall.called /\ ~loadCall.ok
    /\ status_[1] = "Load failed: "
    /\ IsValid(outputTex_) /\ ~IsEmpty(outputBgr_)
    /\ IsValid(inputTex_) /\ ~IsEmpty(inputBgr_)

\* C29: only Save writes a file, and only with a non-empty output image
\* and a save path; Save without an output reports "Nothing to save" and
\* writes nothing; a cancelled save dialog writes nothing and leaves the
\* save path and the output image unchanged; Pixelize without an input
\* does not enter Process and leaves the output unchanged.
C29_SaveWritesOnlyWithOutputAndPath ==
    /\ [][disk' # disk =>
            /\ lastHandler'.name = "Save"
            /\ ~IsEmpty(outputBgr_)
            /\ savePath_' # ""
            /\ disk' = [f \in DOMAIN disk \cup {savePath_'} |->
                          IF f = savePath_' THEN outputBgr_ ELSE disk[f]]]_vars
    /\ [][(lastHandler'.name = "Save" /\ IsEmpty(outputBgr_)) =>
            /\ status_' = <<"Nothing to save (process an image first).", "">>
            /\ UNCHANGED <<disk, savePath_, outputBgr_>>]_vars
    /\ [][(lastHandler'.name = "Save" /\ lastHandler'.dialog = "cancelled") =>
            /\ savePath_ = ""
            /\ UNCHANGED <<disk, savePath_, outputBgr_>>]_vars
    /\ [][(lastHandler'.name = "Pixelize" /\ appPc = "idle" /\ IsEmpty(inputBgr_)) =>
            /\ pc' = "idle" /\ appPc' = "idle"
            /\ UNCHANGED <<outputBgr_, outputTex_>>]_vars

\* The save dialog was cancelled with an output to save: nothing is written.
C29_Witness ==
    /\ lastHandler = [name |-> "Save", dialog |-> "cancelled"]
    /\ status_ = <<"Save cancelled.", "">>
    /\ ~IsEmpty(outputBgr_)
    /\ savePath_ = ""
    /\ disk = << >>

\* C30 as stated: once the save path is set it never changes, and every
\* later Save writes the current output to it without a dialog.
C30_EverySaveWrites ==
    /\ [][savePath_ # "" => savePath_' = savePath_]_vars
    /\ [][(lastHandler'.name = "Save" /\ savePath_ # "") =>
            /\ lastHandler'.dialog = "none"
            /\ savePath_ \in DOMAIN disk'
            /\ disk'[savePath_] = outputBgr_
            /\ ~IsEmpty(outputBgr_)]_vars

\* C30: once the save path is set no handler changes it, and every later
\* Save made while there is an output image hands that image and that path
\* to ImageLoader::Save without opening the dialog: the file then holds the
\* output, unless cv::imwrite fails, and then nothing is written.
C30_SavePathKept ==
    /\ [][savePath_ # "" => savePath_' = savePath_]_vars
    /\ [][(lastHandler'.name = "Save" /\ savePath_ # "" /\ ~IsEmpty(outputBgr_)) =>
            /\ lastHandler'.dialog = "none"
            /\ \/ /\ status_' = <<"Saved: ", savePath_>>
                  /\ savePath_ \in DOMAIN disk'
                  /\ disk'[savePath_] = outputBgr_
               \/ /\ status_'[1] = "Save failed: "
                  /\ disk' = disk]_vars

\* The result of b.png has been saved without a dialog over the saved
\* result of a.png.
C30_Witness ==
    /\ lastHandler = [name |-> "Save", dialog |-> "none"]
    /\ savePath_ = "out.jpg"
    /\ status_ = <<"Saved: ", "out.jpg">>
    /\ inputBgr_ = Imread("b.png")
    /\ disk["out.jpg"] = outputBgr_
    /\ outputBgr_.w = 1
====
